---- MODULE Spec2Model ----
(***************************************************************************)
(* SmartProcure backend: the sheet schema (sheet_schema.py), the slot      *)
(* ranking engine (excel_core.py), the two-stage agent loop                *)
(* (agent_runtime.py) and the chat handler's WRITE paths (routes.py).      *)
(*                                                                         *)
(* Text is a sequence of characters.  A CJK character is written as one    *)
(* pinyin token ("dan","jia" for the two characters of the price header),  *)
(* an ASCII character as itself, a full-width punctuation mark as "fw(",   *)
(* "fw)", "fw:" and "fw;".  Column indices are 0-based as in the code; the *)
(* cell with index i of a row r is r[i + 1].                               *)
(***************************************************************************)
EXTENDS Integers, Sequences, FiniteSets, TLC

VARIABLES
    sheet_data,     \* excel_core: the grid, row 1 is the header row
    pre_sheet,      \* the grid as it was when the last process_update was called
    last_action,    \* the UpdateAction of the last process_update (NoAction before)
    n_updates,      \* number of process_update calls made so far
    sch_in,         \* sheet_schema: the argument of build_sheet_schema
    sch_out,        \* sheet_schema: the schema it returned (NoSchema before the call)
    ag,             \* agent_runtime: the locals of run_two_stage_agent
    chat,           \* routes: the locals of chat_endpoint from the agent's answer on
    loc             \* sheet_schema: a call of a row lookup (locate_rows_by_criteria,
                    \* fuzzy_match_rows) and its result

vars == <<sheet_data, pre_sheet, last_action, n_updates, sch_in, sch_out, ag, chat, loc>>

(***************************************************************************)
(* Bounds of the model.                                                    *)
(***************************************************************************)
MaxSlots == 3
MaxPrice == 4
MaxUpdates == 2

(***************************************************************************)
(* Values: Python None, numbers, booleans and strings in one record shape. *)
(***************************************************************************)
None == [k |-> "none", n |-> 0, s |-> <<>>]
Num(x) == [k |-> "num", n |-> x, s |-> <<>>]
Bool(b) == [k |-> "bool", n |-> IF b THEN 1 ELSE 0, s |-> <<>>]
Str(t) == [k |-> "str", n |-> 0, s |-> t]

IsStr(v) == v.k = "str"
IsNone(v) == v.k = "none"

\* float('inf') of get_price: above every price of the model
Inf == MaxPrice + 1

(***************************************************************************)
(* Text helpers.                                                           *)
(***************************************************************************)
Whitespace == {" ", "\t"}

Digit(d) == <<"0", "1", "2", "3", "4", "5", "6", "7", "8", "9">>[d + 1]

RECURSIVE Digits(_)
Digits(x) == IF x < 10 THEN <<Digit(x)>> ELSE Digits(x \div 10) \o <<Digit(x % 10)>>

\* str(v)
PyStr(v) ==
    CASE v.k = "str" -> v.s
      [] v.k = "num" -> Digits(v.n)
      [] v.k = "bool" -> IF v.n = 1 THEN <<"T", "r", "u", "e">> ELSE <<"F", "a", "l", "s", "e">>
      [] OTHER -> <<"N", "o", "n", "e">>

RECURSIVE LStrip(_)
LStrip(t) == IF t # <<>> /\ Head(t) \in Whitespace THEN LStrip(Tail(t)) ELSE t

RECURSIVE RStrip(_)
RStrip(t) ==
    IF t # <<>> /\ t[Len(t)] \in Whitespace THEN RStrip(SubSeq(t, 1, Len(t) - 1)) ELSE t

\* str.strip()
Strip(t) == RStrip(LStrip(t))

LowerChar(c) ==
    CASE c = "K" -> "k" [] c = "W" -> "w" [] c = "M" -> "m" [] c = "N" -> "n"
      [] c = "O" -> "o" [] c = "E" -> "e" [] c = "A" -> "a" [] c = "B" -> "b"
      [] c = "T" -> "t" [] c = "R" -> "r" [] c = "U" -> "u" [] c = "Y" -> "y"
      [] c = "S" -> "s" [] c = "F" -> "f" [] c = "L" -> "l"
      [] OTHER -> c

\* str.lower()
Lower(t) == [i \in 1..Len(t) |-> LowerChar(t[i])]

\* a in b, for strings
IsSubstr(a, b) ==
    \E i \in 0..(Len(b) - Len(a)) : SubSeq(b, i + 1, i + Len(a)) = a

NoneText == <<"n", "o", "n", "e">>

HalfWidth(c) ==
    CASE c = "fw(" -> "(" [] c = "fw)" -> ")" [] c = "fw:" -> ":" [] OTHER -> c

RECURSIVE HalfWidthAll(_)
\* the three str.replace calls of normalize_header
HalfWidthAll(t) == IF t = <<>> THEN <<>> ELSE <<HalfWidth(Head(t))>> \o HalfWidthAll(Tail(t))

\* sheet_schema.normalize_header
normalize_header(text) ==
    IF IsNone(text) THEN <<>>
    ELSE HalfWidthAll(SelectSeq(Strip(PyStr(text)), LAMBDA c : c \notin Whitespace))

(***************************************************************************)
(* models/columns.py and the schema builder.                               *)
(***************************************************************************)
\* pinpai = brand, beizhu = remark, danjia = unit price, hanshui = tax included,
\* hanyun = shipping included, huoqi = lead time, gongyingshang = supplier
SLOT_TEMPLATE == <<"pinpai", "beizhu", "danjia", "hanshui", "hanyun", "huoqi", "gongyingshang">>

SLOT_FIELDS == <<"pinpai", "danjia", "hanshui", "hanyun", "huoqi", "beizhu", "gongyingshang">>

FieldNames == {SLOT_TEMPLATE[i] : i \in 1..Len(SLOT_TEMPLATE)}

BASIC_COLS_COUNT == 5
SLOT_SIZE == 7

\* no column: the None of Optional[int]
NoIdx == -1

ITEM_NAME_COL_SYNONYMS ==
    << <<"wu", "liao", "ming", "cheng">>, <<"wu", "pin", "ming", "cheng">>, <<"pin", "ming">>,
       <<"ming", "cheng">>, <<"wu", "liao">>, <<"chan", "pin", "ming", "cheng">>,
       <<"cai", "liao", "ming", "cheng">> >>

ITEM_SPEC_COL_SYNONYMS ==
    << <<"gui", "ge">>, <<"gui", "ge", "xing", "hao">>, <<"gui", "ge", "xing", "hao">>,
       <<"xing", "hao">>, <<"gui", "ge", "/", "xing", "hao">>,
       <<"gui", "ge", "xing", "hao", "/", "xing", "hao">> >>

ITEM_BRAND_COL_SYNONYMS ==
    << <<"pin", "pai">>, <<"pai">>, <<"pin", "pai", "ming", "cheng">> >>

ITEM_MODEL_COL_SYNONYMS ==
    << <<"chan", "pin", "xing", "hao">>, <<"xing", "hao">>, <<"wu", "liao", "xing", "hao">>,
       <<"gui", "ge", "xing", "hao">>, <<"chan", "pin", "bian", "ma">>,
       <<"wu", "liao", "bian", "ma">>, <<"liao", "hao">>, <<"xing", "hao", "/", "bian", "ma">>,
       <<"gui", "ge", "xing", "hao", "/", "bian", "ma">> >>

RECURSIVE normalize_all(_)
\* [normalize_header(h) for h in headers]
normalize_all(cells) ==
    IF cells = <<>> THEN <<>>
    ELSE <<normalize_header(Head(cells))>> \o normalize_all(Tail(cells))

\* the test of the first loop nest of _best_header_index (line 53), or of the second
\* (line 59)
header_matches(h, c, exact) ==
    IF exact THEN h = c ELSE c # <<>> /\ (IsSubstr(c, h) \/ IsSubstr(h, c))

\* one loop nest of _best_header_index from candidate c and column i on: the 0-based
\* column it returns, NoIdx when it falls through
RECURSIVE first_match(_, _, _, _, _)
first_match(norm_headers, candidate_norm, c, i, exact) ==
    IF c > Len(candidate_norm) THEN NoIdx
    ELSE IF i > Len(norm_headers)
         THEN first_match(norm_headers, candidate_norm, c + 1, 1, exact)
         ELSE IF norm_headers[i] # <<>>
                 /\ header_matches(norm_headers[i], candidate_norm[c], exact)
              THEN i - 1
              ELSE first_match(norm_headers, candidate_norm, c, i + 1, exact)

RECURSIVE normalize_texts(_)
\* [normalize_header(c) for c in candidates]
normalize_texts(candidates) ==
    IF candidates = <<>> THEN <<>>
    ELSE <<normalize_header(Str(Head(candidates)))>> \o normalize_texts(Tail(candidates))

\* sheet_schema._best_header_index, given norm_headers and candidate_norm (lines 47-48);
\* the result is a 0-based column or NoIdx
best_header_index(norm_headers, candidate_norm) ==
    LET exact == first_match(norm_headers, candidate_norm, 1, 1, TRUE)
    IN  IF exact # NoIdx THEN exact
        ELSE first_match(norm_headers, candidate_norm, 1, 1, FALSE)

NAME_CANDIDATES_NORM == normalize_texts(ITEM_NAME_COL_SYNONYMS)
SPEC_CANDIDATES_NORM == normalize_texts(ITEM_SPEC_COL_SYNONYMS)
BRAND_CANDIDATES_NORM == normalize_texts(ITEM_BRAND_COL_SYNONYMS)
MODEL_CANDIDATES_NORM == normalize_texts(ITEM_MODEL_COL_SYNONYMS)

\* sheet_schema.infer_item_columns
infer_item_columns(headers) ==
    LET norm_headers == normalize_all(headers)
    IN  [name |-> best_header_index(norm_headers, NAME_CANDIDATES_NORM),
         spec |-> best_header_index(norm_headers, SPEC_CANDIDATES_NORM),
         brand |-> best_header_index(norm_headers, BRAND_CANDIDATES_NORM),
         model |-> best_header_index(norm_headers, MODEL_CANDIDATES_NORM)]

\* i of "for i, field in enumerate(SLOT_FIELDS)", by field
slot_field_offset(field) == (CHOOSE i \in 1..Len(SLOT_FIELDS) : SLOT_FIELDS[i] = field) - 1

\* the slot_mapping built by one round of the while loop of build_sheet_schema
slot_mapping(col_idx) ==
    [pinpai |-> col_idx + slot_field_offset("pinpai"),
     danjia |-> col_idx + slot_field_offset("danjia"),
     hanshui |-> col_idx + slot_field_offset("hanshui"),
     hanyun |-> col_idx + slot_field_offset("hanyun"),
     huoqi |-> col_idx + slot_field_offset("huoqi"),
     beizhu |-> col_idx + slot_field_offset("beizhu"),
     gongyingshang |-> col_idx + slot_field_offset("gongyingshang")]

\* the while loop of build_sheet_schema: slots is the sequence of the mappings of
\* slot 1, 2, ... (the dict's key slot_num is the position in the sequence)
RECURSIVE slots_loop(_, _, _)
slots_loop(slots, col_idx, n_headers) ==
    IF col_idx + SLOT_SIZE <= n_headers
    THEN slots_loop(Append(slots, slot_mapping(col_idx)), col_idx + SLOT_SIZE, n_headers)
    ELSE slots

\* sheet_schema.build_sheet_schema.  sheet_data is a sequence of rows (None, or an
\* empty grid, is the empty sequence); header_index, which nothing here reads, is left out
build_sheet_schema(sheet) ==
    LET headers == IF Len(sheet) >= 1 THEN sheet[1] ELSE <<>>
        basic == SubSeq(headers, 1, IF Len(headers) < BASIC_COLS_COUNT
                                    THEN Len(headers) ELSE BASIC_COLS_COUNT)
    IN  [headers |-> headers,
         slots |-> slots_loop(<<>>, BASIC_COLS_COUNT, Len(headers)),
         item_columns |-> infer_item_columns(basic)]

(***************************************************************************)
(* services/excel_core.py: the slot ranking engine.                        *)
(***************************************************************************)
\* excel_core._ensure_row_len
ensure_row_len(row, length) ==
    IF Len(row) < length THEN row \o [i \in 1..(length - Len(row)) |-> None] ELSE row

\* excel_core._get_slot_index
get_slot_index(schema, slot_num, field) ==
    IF slot_num \in 1..Len(schema.slots) THEN schema.slots[slot_num][field] ELSE NoIdx

\* excel_core.get_slot_values
get_slot_values(row, schema, slot_num) ==
    [field \in FieldNames |->
        LET idx == get_slot_index(schema, slot_num, field)
        IN  IF idx # NoIdx /\ idx < Len(row) THEN row[idx + 1] ELSE None]

\* the for loop of set_slot_values from the i-th field of SLOT_TEMPLATE on
RECURSIVE set_fields_from(_, _, _, _, _)
set_fields_from(row, schema, slot_num, values, i) ==
    IF i > Len(SLOT_TEMPLATE) THEN row
    ELSE LET field == SLOT_TEMPLATE[i]
             idx == get_slot_index(schema, slot_num, field)
             row1 == IF idx # NoIdx /\ idx >= 0
                     THEN [ensure_row_len(row, idx + 1) EXCEPT ![idx + 1] = values[field]]
                     ELSE row
         IN  set_fields_from(row1, schema, slot_num, values, i + 1)

\* set_slot_values writing the values in SLOT_TEMPLATE order into the seven columns of
\* the block, whatever field the schema gives each column
set_slot_values_by_position(row, schema, slot_num, values) ==
    LET base == schema.slots[slot_num]["pinpai"]
        r == ensure_row_len(row, base + SLOT_SIZE)
    IN  [c \in 1..Len(r) |->
            IF c - 1 \in base..(base + SLOT_SIZE - 1) THEN values[SLOT_TEMPLATE[c - base]]
            ELSE r[c]]

\* excel_core.set_slot_values
set_slot_values(row, schema, slot_num, values) ==
    set_fields_from(row, schema, slot_num, values, 1)

IsDigitChar(c) == c \in {"0", "1", "2", "3", "4", "5", "6", "7", "8", "9"}

DigitValue(c) == CHOOSE d \in 0..9 : Digit(d) = c

RECURSIVE DecimalValue(_)
DecimalValue(t) ==
    IF t = <<>> THEN 0
    ELSE 10 * DecimalValue(SubSeq(t, 1, Len(t) - 1)) + DigitValue(t[Len(t)])

\* float(val) inside the try of get_price; Inf stands for the except branch too.
\* The strings of the model that float() accepts are the digit strings, with blanks
\* around them allowed.
PyFloat(val) ==
    CASE val.k = "num" -> val.n
      [] val.k = "bool" -> val.n
      [] val.k = "str" ->
            LET t == Strip(val.s)
            IN  IF t # <<>> /\ \A i \in 1..Len(t) : IsDigitChar(t[i])
                THEN DecimalValue(t) ELSE Inf
      [] OTHER -> Inf

\* excel_core.get_price
get_price(slot_values) ==
    LET val == slot_values["danjia"]
    IN  IF IsNone(val) \/ val = Str(<<>>) \/ val = Str(<<"N", "o", "n", "e">>)
        THEN Inf
        ELSE PyFloat(val)

\* bool(x) of a string-or-None value: a non-empty string
Truthy(v) == IsStr(v) /\ v.s # <<>>

\* process_update lines 68-90: the text of an item column of the row, None when the
\* column is absent, the cell is None, blank or reads "none"
row_item_text(row, col) ==
    IF col # NoIdx /\ 0 <= col /\ col < Len(row) /\ ~IsNone(row[col + 1])
    THEN LET s == Strip(PyStr(row[col + 1]))
         IN  IF s # <<>> /\ Lower(s) # NoneText THEN Str(s) ELSE None
    ELSE None

MismatchModelPrefix == <<"xing", "hao", "bu", "yi", "zhi", ":", " ", "bao", "jia", "(">>
MismatchSpecPrefix == <<"gui", "ge", "bu", "yi", "zhi", ":", " ", "bao", "jia", "(">>
MismatchMiddle == <<")", " ", "biao", "nei", "(">>

\* a mismatch test that compares the two texts without folding their case
auto_remark_case_sensitive(quoted, row_text, prefix) ==
    IF IsStr(quoted) /\ Strip(quoted.s) # <<>> /\ Truthy(row_text)
    THEN LET q == Strip(quoted.s)
         IN  IF normalize_header(Str(q)) # normalize_header(row_text)
             THEN Str(prefix \o q \o MismatchMiddle \o row_text.s \o <<")">>)
             ELSE None
    ELSE None

\* process_update lines 92-102: the mismatch text, None when there is none
auto_remark_of(quoted, row_text, prefix) ==
    IF IsStr(quoted) /\ Strip(quoted.s) # <<>> /\ Truthy(row_text)
    THEN LET q == Strip(quoted.s)
         IN  IF Lower(normalize_header(Str(q))) # Lower(normalize_header(row_text))
             THEN Str(prefix \o q \o MismatchMiddle \o row_text.s \o <<")">>)
             ELSE None
    ELSE None

\* a merge that does not look whether the remark already holds the mismatch text
merge_remark_always_appending(remarks, auto) ==
    IF Truthy(auto)
    THEN IF ~IsStr(remarks) \/ Strip(remarks.s) = <<>> THEN auto
         ELSE Str(Strip(remarks.s) \o <<"fw;">> \o auto.s)
    ELSE remarks

\* a merge in which the mismatch text takes the place of the remark
merge_remark_replacing(remarks, auto) == IF Truthy(auto) THEN auto ELSE remarks

\* process_update lines 106-110 (and 111-115): one mismatch text merged into remarks
merge_remark(remarks, auto) ==
    IF Truthy(auto)
    THEN IF ~IsStr(remarks) \/ Strip(remarks.s) = <<>> THEN auto
         ELSE IF ~IsSubstr(auto.s, remarks.s)
              THEN Str(Strip(remarks.s) \o <<"fw;">> \o auto.s)
              ELSE remarks
    ELSE remarks

\* the two tokens the wrong way round
NoYes(b) == Str(IF b THEN <<"fou">> ELSE <<"shi">>)

YesNo(b) == Str(IF b THEN <<"shi">> ELSE <<"fou">>)

\* a new offer whose brand is the action's, whatever the row holds
new_offer_without_brand_default(row, schema, action) ==
    LET cols == schema.item_columns
        row_model == row_item_text(row, cols.model)
        row_spec == row_item_text(row, cols.spec)
        auto_remark == auto_remark_of(action.quoted_model, row_model, MismatchModelPrefix)
        auto_spec_remark == auto_remark_of(action.quoted_spec, row_spec, MismatchSpecPrefix)
    IN  [pinpai |-> action.offer_brand,
         beizhu |-> merge_remark(merge_remark(action.remarks, auto_remark), auto_spec_remark),
         danjia |-> Num(action.price),
         hanshui |-> YesNo(action.tax),
         hanyun |-> IF IsStr(action.shipping) THEN action.shipping
                    ELSE YesNo(action.shipping.k = "bool" /\ action.shipping.n = 1),
         huoqi |-> action.delivery_time,
         gongyingshang |-> action.supplier]

\* process_update lines 92-129: the new offer built from the action and the row
new_offer_of(row, schema, action) ==
    LET cols == schema.item_columns
        row_model == row_item_text(row, cols.model)
        row_spec == row_item_text(row, cols.spec)
        row_brand == row_item_text(row, cols.brand)
        auto_remark == auto_remark_of(action.quoted_model, row_model, MismatchModelPrefix)
        auto_spec_remark == auto_remark_of(action.quoted_spec, row_spec, MismatchSpecPrefix)
        remarks == merge_remark(merge_remark(action.remarks, auto_remark), auto_spec_remark)
        offer_brand == IF (~IsStr(action.offer_brand) \/ Strip(action.offer_brand.s) = <<>>)
                          /\ Truthy(row_brand)
                       THEN row_brand ELSE action.offer_brand
    IN  [pinpai |-> offer_brand,
         beizhu |-> remarks,
         danjia |-> Num(action.price),
         hanshui |-> YesNo(action.tax),
         hanyun |-> IF IsStr(action.shipping) THEN action.shipping
                    ELSE YesNo(action.shipping.k = "bool" /\ action.shipping.n = 1),
         huoqi |-> action.delivery_time,
         gongyingshang |-> action.supplier]

\* process_update lines 134-140: the priced offers of the row, in slot order
RECURSIVE read_offers(_, _, _)
read_offers(row, schema, n) ==
    IF n > Len(schema.slots) THEN <<>>
    ELSE LET vals == get_slot_values(row, schema, n)
             p == get_price(vals)
         IN  (IF p = Inf THEN <<>> ELSE <<[p |-> p, n |-> n, vals |-> vals]>>)
             \o read_offers(row, schema, n + 1)

\* a sort key that puts the dearest offer first
KeyGeq(a, b) == a.p > b.p \/ (a.p = b.p /\ a.n <= b.n)

\* the sort key (x[0], x[1]) of line 142
KeyLeq(a, b) == a.p < b.p \/ (a.p = b.p /\ a.n <= b.n)

\* the offers left in slot order, as if line 142 were missing
unsorted_offers(offers) == offers

\* offers.sort(key=lambda x: (x[0], x[1])), line 142
RECURSIVE sort_offers(_)
sort_offers(offers) ==
    IF offers = <<>> THEN <<>>
    ELSE LET m == CHOOSE i \in 1..Len(offers) : \A j \in 1..Len(offers) : KeyLeq(offers[i], offers[j])
         IN  <<offers[m]>>
             \o sort_offers(SubSeq(offers, 1, m - 1) \o SubSeq(offers, m + 1, Len(offers)))

\* a test that puts the new offer after every existing offer
goes_after_all(p_new, v) == FALSE

\* a test that puts the new offer before every existing offer
goes_before_all(p_new, v) == TRUE

\* a test that also puts the new offer before an offer of its own price
goes_before_or_equal(p_new, v) == p_new <= get_price(v)

\* the test of line 151: the new offer goes before the existing offer v
goes_before(p_new, v) == p_new < get_price(v)

\* process_update lines 148-156: the insertion loop from the i-th sorted offer on
RECURSIVE insert_loop(_, _, _, _, _, _)
insert_loop(sorted_vals, i, inserted, out_vals, p_new, new_offer) ==
    IF i > Len(sorted_vals)
    THEN IF ~inserted THEN Append(out_vals, new_offer) ELSE out_vals
    ELSE LET v == sorted_vals[i]
             ins == ~inserted /\ goes_before(p_new, v)
         IN  insert_loop(sorted_vals, i + 1, inserted \/ ins,
                         (IF ins THEN Append(out_vals, new_offer) ELSE out_vals) \o <<v>>,
                         p_new, new_offer)

\* a truncation that keeps the last capacity offers instead of the first
truncate_tail(out_vals, capacity) ==
    SubSeq(out_vals, IF Len(out_vals) < capacity THEN 1 ELSE Len(out_vals) - capacity + 1,
           Len(out_vals))

\* out_vals[: len(slot_numbers)], line 158
truncate(out_vals, capacity) ==
    SubSeq(out_vals, 1, IF Len(out_vals) < capacity THEN Len(out_vals) ELSE capacity)

empty_offer == [field \in FieldNames |-> None]

\* process_update lines 161-165: the write-back loop from slot i on
RECURSIVE write_back(_, _, _, _)
write_back(row, schema, out_vals, i) ==
    IF i > Len(schema.slots) THEN row
    ELSE write_back(set_slot_values(row, schema, i,
                                    IF i <= Len(out_vals) THEN out_vals[i] ELSE empty_offer),
                    schema, out_vals, i + 1)

\* a range test that forgets the lower bound
in_range_upper_only(target_idx, n_rows) == target_idx < n_rows

\* the range test of lines 50-52 on target_idx = target_row - 1
in_range(target_idx, n_rows) == ~(target_idx < 0 \/ target_idx >= n_rows)

\* the position (from 1) of list[i] in a Python list of n elements: a negative i
\* counts from the end
py_index(i, n) == IF i < 0 THEN n + i + 1 ELSE i + 1

\* excel_core.process_update: the grid it returns (the same list, mutated in place).
\* The supplier bookkeeping of lines 167-196 reads the action only and catches its
\* own database errors; it touches no cell.
process_update(sheet, action) ==
    LET target_idx == action.target_row - 1
    IN  IF ~in_range(target_idx, Len(sheet)) THEN sheet
        ELSE LET row == sheet[py_index(target_idx, Len(sheet))]
                 schema == build_sheet_schema(sheet)
             IN  IF Len(schema.slots) = 0 THEN sheet
                 ELSE LET new_offer == new_offer_of(row, schema, action)
                          offers == sort_offers(read_offers(row, schema, 1))
                          sorted_vals == [i \in 1..Len(offers) |-> offers[i].vals]
                          out_vals == truncate(insert_loop(sorted_vals, 1, FALSE, <<>>,
                                                           action.price, new_offer),
                                               Len(schema.slots))
                      IN  [sheet EXCEPT ![py_index(target_idx, Len(sheet))] =
                                             write_back(row, schema, out_vals, 1)]

(***************************************************************************)
(* The sheets and the update actions the ranking engine is run on.         *)
(***************************************************************************)
FieldChars(field) ==
    CASE field = "pinpai" -> <<"pin", "pai">>
      [] field = "beizhu" -> <<"bei", "zhu">>
      [] field = "danjia" -> <<"dan", "jia">>
      [] field = "hanshui" -> <<"han", "shui">>
      [] field = "hanyun" -> <<"han", "yun">>
      [] field = "huoqi" -> <<"huo", "qi">>
      [] OTHER -> <<"gong", "ying", "shang">>

\* base headers: serial number, item name, brand, product model, spec
BaseHeaders ==
    << Str(<<"xu", "hao">>), Str(<<"wu", "pin", "ming", "cheng">>), Str(<<"pin", "pai">>),
       Str(<<"chan", "pin", "xing", "hao">>), Str(<<"gui", "ge">>) >>

\* the header of the j-th column (1..7) of slot block s, named as columns.HEADERS
\* names them: f"{col}{i}" for col in SLOT_TEMPLATE
SlotHeader(s, j) == Str(FieldChars(SLOT_TEMPLATE[j]) \o Digits(s))

\* a header row with n_slots full blocks and extra columns of a partial block
HeaderRow(n_slots, extra) ==
    BaseHeaders
    \o [c \in 1..(SLOT_SIZE * n_slots) |->
            SlotHeader(((c - 1) \div SLOT_SIZE) + 1, ((c - 1) % SLOT_SIZE) + 1)]
    \o [c \in 1..extra |-> SlotHeader(n_slots + 1, c)]

\* the seven cells of a slot block, in column order, holding the offer a supplier s
\* made at a price cell: every text carries the supplier's number
OfferBlock(s, price_cell) ==
    << Str(<<"B">> \o Digits(s)), price_cell, Str(<<"shi">>), Str(<<"fou">>),
       Str(Digits(s) \o <<"tian">>), Str(<<"R">> \o Digits(s)), Str(<<"S">> \o Digits(s)) >>

EmptyBlock == [j \in 1..SLOT_SIZE |-> None]

\* a block whose texts are filled in and whose price cell holds no price: an empty
\* string, the text "None", or a text that is no number
UnpricedCell(s) ==
    IF s = 1 THEN Str(<<>>)
    ELSE IF s = 2 THEN Str(<<"N", "o", "n", "e">>)
    ELSE Str(<<"mian", "yi">>)

BlockChoices(s) ==
    {EmptyBlock, OfferBlock(s, UnpricedCell(s))} \cup {OfferBlock(s, Num(p)) : p \in 1..MaxPrice}

RECURSIVE BlockRows(_, _)
\* every sequence of cells made of the blocks of slots s..n_slots
BlockRows(s, n_slots) ==
    IF s > n_slots THEN {<<>>}
    ELSE {b \o rest : b \in BlockChoices(s), rest \in BlockRows(s + 1, n_slots)}

\* row 2: a motor of brand AB, model M1, spec 1KW
Row2Base ==
    << Str(<<"1">>), Str(<<"dian", "ji">>), Str(<<"A", "B">>), Str(<<"M", "1">>),
       Str(<<"1", "K", "W">>) >>

\* row 3: shorter than the header; brand cell reading "None", a model with brackets,
\* a blank spec, and one offer whose price was typed as the text "2"
Row3 ==
    << Str(<<"2">>), Str(<<"feng", "ji">>), Str(<<"N", "o", "n", "e">>),
       Str(<<"F", "(", "1", ")">>), Str(<<" ">>),
       Str(<<"B", "9">>), Str(<<"2">>) >>

\* the sheets process_update starts from: a header row with k full slot blocks and no
\* partial block (for one slot also with a partial block of two columns), row 2 with
\* every choice of blocks, and row 3
InitSheets ==
    {<<HeaderRow(k, 0), Row2Base \o blocks, Row3>> : k \in {0}, blocks \in {<<>>}}
    \cup UNION {{<<HeaderRow(k, 0), Row2Base \o blocks, Row3>> : blocks \in BlockRows(1, k)} :
                   k \in 1..MaxSlots}
    \cup {<<HeaderRow(1, 2), Row2Base \o blocks, Row3>> : blocks \in BlockRows(1, 1)}

NoAction ==
    [target_row |-> 0, price |-> 0, tax |-> FALSE, shipping |-> None, delivery_time |-> None,
     offer_brand |-> None, supplier |-> None, remarks |-> None, quoted_model |-> None,
     quoted_spec |-> None]

\* the fields of an UpdateAction other than target_row and price
PlainVariant ==
    [tax |-> TRUE, shipping |-> Bool(TRUE), delivery_time |-> Str(<<"3", "tian">>),
     offer_brand |-> None, supplier |-> Str(<<"N", "E", "W">>), remarks |-> None,
     quoted_model |-> None, quoted_spec |-> None]

ActionVariants ==
    { PlainVariant,
      [tax |-> FALSE, shipping |-> Str(<<"man", "1", "0", "0", "0", "bao", "you">>),
       delivery_time |-> Str(<<"xian", "huo">>), offer_brand |-> Str(<<"K", "T", "R">>),
       supplier |-> None, remarks |-> Str(<<"lao", "kuan">>),
       quoted_model |-> Str(<<"M", "2">>), quoted_spec |-> Str(<<"1", "k", "w">>)],
      [tax |-> TRUE, shipping |-> None, delivery_time |-> Str(<<"3", "tian">>),
       offer_brand |-> Str(<<" ">>), supplier |-> Str(<<"N", "E", "W">>),
       remarks |-> Str(MismatchModelPrefix \o <<"M", "2">> \o MismatchMiddle \o <<"M", "1", ")">>),
       quoted_model |-> Str(<<" ", "M", "2", " ">>), quoted_spec |-> Str(<<"2", "K", "W">>)],
      [tax |-> FALSE, shipping |-> Bool(FALSE), delivery_time |-> Str(<<"xian", "huo">>),
       offer_brand |-> None, supplier |-> Str(<<"N", "E", "W">>), remarks |-> Str(<<" ">>),
       quoted_model |-> Str(<<"m", " ", "1">>), quoted_spec |-> None] }

MakeAction(target_row, price, v) ==
    [target_row |-> target_row, price |-> price, tax |-> v.tax, shipping |-> v.shipping,
     delivery_time |-> v.delivery_time, offer_brand |-> v.offer_brand,
     supplier |-> v.supplier, remarks |-> v.remarks, quoted_model |-> v.quoted_model,
     quoted_spec |-> v.quoted_spec]

\* the UpdateActions tried on a sheet of n_rows rows.  The first call: on row 2 every
\* price with every variant; on the header row and on row 3 every price; below the
\* first row and past the last row one action each; on row 3 also every price with
\* the row's model quoted in full-width brackets and a spec quoted where the row has
\* none.  A later call: every price on row 2
UpdateActions(n_rows, first) ==
    {MakeAction(2, p, v) : p \in 1..MaxPrice, v \in IF first THEN ActionVariants ELSE {PlainVariant}}
    \cup {MakeAction(r, p, PlainVariant) : r \in IF first THEN {1, 3} ELSE {}, p \in 1..MaxPrice}
    \cup {MakeAction(3, p, [PlainVariant EXCEPT !.quoted_model = Str(<<"F", "fw(", "1", "fw)">>),
                                                 !.quoted_spec = Str(<<"1", "K", "W">>)]) :
              p \in IF first THEN 1..MaxPrice ELSE {}}
    \cup {MakeAction(r, 1, PlainVariant) : r \in IF first THEN {0, n_rows + 1} ELSE {}}

(***************************************************************************)
(* services/agent_runtime.py: the tool registry and the two-stage loop.    *)
(***************************************************************************)
MaxToolSteps == 3

\* The tools of the registry: one that returns and one that raises.
ToolReturns == <<"supplier_lookup">>
ToolRaises == <<"faulty_tool">>
RegisteredTools == {ToolReturns, ToolRaises}

\* an execute that runs no lookup test and wraps whatever it got as a success
execute_unguarded(name, args) == [ok |-> TRUE, tool |-> name, body |-> "result"]

\* ToolRegistry.execute: the result dict, as [ok, tool, body] with body one of
\* "result", "error: unknown tool", "error: raised"
execute(name, args) ==
    IF name \notin RegisteredTools
    THEN [ok |-> FALSE, tool |-> name, body |-> "error: unknown tool"]
    ELSE IF name = ToolRaises
         THEN [ok |-> FALSE, tool |-> name, body |-> "error: raised"]
         ELSE [ok |-> TRUE, tool |-> name, body |-> "result"]

\* An oracle response.  form: "notstr" (call_llm returned no str), "text" (no JSON),
\* "list" (JSON that is a non-empty array, no object), "dict" (a JSON object).  The other fields are the
\* object's entries: action ("missing" when absent), tool (a value), args and draft
\* ("dict", "other" for a non-empty non-dict, "missing"), updates ("list", "missing"),
\* data ("dict", "missing").
Response(form, action, tool, args, draft, updates, data) ==
    [form |-> form, action |-> action, tool |-> tool, args |-> args, draft |-> draft,
     updates |-> updates, data |-> data]

Malformed(form) == Response(form, "missing", None, "missing", "missing", "missing", "missing")
Decision(action) == Response("dict", action, None, "missing", "missing", "missing", "missing")
CallTool(tool, args) == Response("dict", "CALL_TOOL", tool, args, "missing", "missing", "missing")
Done(draft) == Response("dict", "DONE", None, "missing", draft, "missing", "missing")
Write(updates, data) == Response("dict", "WRITE", None, "missing", "missing", updates, data)

MalformedResponses == {Malformed("notstr"), Malformed("text"), Malformed("list")}

CallToolResponses ==
    {CallTool(Str(ToolReturns), "dict"), CallTool(Str(<<" ">> \o ToolReturns \o <<" ">>), "other"),
     CallTool(Str(ToolRaises), "missing"), CallTool(Str(<<"no_such_tool">>), "dict"),
     CallTool(Str(<<" ">>), "dict"), CallTool(Num(1), "dict"), CallTool(None, "dict")}

OracleResponses ==
    MalformedResponses
    \cup {Decision("ASK"), Decision("missing"), Decision("RETRY")}
    \cup CallToolResponses
    \cup {Done("dict"), Done("other"), Done("missing")}
    \cup {Write("list", "missing"), Write("missing", "dict"), Write("missing", "missing")}

\* a parse that returns whatever json.loads gives, object or not
json_loads_unchecked(resp) ==
    IF resp.form = "dict" THEN "dict" ELSE IF resp.form = "list" THEN "list" ELSE "none"

\* agent_runtime._safe_json_loads: "dict" when it returns the object, "none" when it
\* returns None
safe_json_loads(resp) == IF resp.form = "dict" THEN "dict" ELSE "none"

\* "_safe_json_loads(...) or {}" followed by the .get calls: the object read, the empty
\* object when the parse gave None; reading a parse result that is no dict raises
parsed_or_empty(resp) ==
    LET loaded == safe_json_loads(resp)
    IN  IF loaded = "dict" THEN [readable |-> TRUE, obj |-> resp]
        ELSE IF loaded = "none" THEN [readable |-> TRUE, obj |-> Decision("missing")]
        ELSE [readable |-> FALSE, obj |-> resp]

EmptyDraft == "{}"
NoResult ==
    [kind |-> "none", action |-> "", content |-> "", payload |-> "", draft |-> EmptyDraft,
     tool_results |-> <<>>]
Ask(content) ==
    [kind |-> "return", action |-> "ASK", content |-> content, payload |-> "",
     draft |-> EmptyDraft, tool_results |-> <<>>]
Raised == [NoResult EXCEPT !.kind = "raise"]

\* a prompt that carries the result of the last tool only
prompt_of_last_result(phase, a) ==
    [phase |-> phase,
     tool_results |-> IF a.tool_results = <<>> THEN <<>>
                      ELSE <<a.tool_results[Len(a.tool_results)]>>,
     draft |-> a.draft]

\* what a call of call_llm was given: the phase, and the tool results and the draft
\* its prompt was built from
PromptOf(phase, a) == [phase |-> phase, tool_results |-> a.tool_results, draft |-> a.draft]

\* the locals at the start of run_two_stage_agent (lines 302-304)
AgentStart(max_tool_steps) ==
    [pc |-> "planner", max_tool_steps |-> max_tool_steps, i |-> 0, tool_results |-> <<>>,
     draft |-> EmptyDraft, prompts |-> <<>>, responses |-> <<>>, result |-> NoResult]

\* a loop head that leaves the loop for the writer after the first tool
loop_head_one_round(i, max_tool_steps) == "writer"

\* a loop head that gives up when the rounds are used up instead of going to the writer
loop_head_hard_fail(i, max_tool_steps) == IF i < max_tool_steps + 1 THEN "planner" ELSE "done"

\* the loop head of line 306 after i rounds: another planner round, or the writer
loop_head(i, max_tool_steps) == IF i < max_tool_steps + 1 THEN "planner" ELSE "writer"

\* one round of the planner loop (lines 307-343) on the oracle's response
planner_round(a, resp) ==
    LET called == [a EXCEPT !.prompts = Append(@, PromptOf("planner", a)),
                            !.responses = Append(@, resp)]
        planner_out == parsed_or_empty(resp)
        action == planner_out.obj.action
        tool_name == planner_out.obj.tool
        finish(r) == [called EXCEPT !.pc = "done", !.result = r]
    IN  IF ~planner_out.readable THEN finish(Raised)
        ELSE IF action = "ASK" THEN finish(Ask("planner content"))
        ELSE IF action = "CALL_TOOL"
             THEN IF ~IsStr(tool_name) \/ Strip(tool_name.s) = <<>>
                  THEN finish(Ask("no tool name"))
                  ELSE LET args == IF planner_out.obj.args = "dict" THEN "dict" ELSE "{}"
                           tool_result == execute(Strip(tool_name.s), args)
                       IN  [called EXCEPT !.tool_results = Append(@, tool_result),
                                          !.i = a.i + 1,
                                          !.pc = loop_head(a.i + 1, a.max_tool_steps)]
        ELSE IF action = "DONE"
             THEN [called EXCEPT !.draft = IF planner_out.obj.draft = "dict" THEN "draft" ELSE @,
                                 !.pc = "writer"]
        ELSE finish(Ask("unknown planner instruction"))

\* the writer phase (lines 345-368) on the oracle's response
writer_phase(a, resp) ==
    LET called == [a EXCEPT !.prompts = Append(@, PromptOf("writer", a)),
                            !.responses = Append(@, resp)]
        writer_out == parsed_or_empty(resp)
        w_action == writer_out.obj.action
        finish(r) == [called EXCEPT !.pc = "done", !.result = r]
    IN  IF ~writer_out.readable THEN finish(Raised)
        ELSE IF w_action = "ASK" THEN finish(Ask("writer content"))
        ELSE IF w_action = "WRITE"
             THEN finish([kind |-> "return", action |-> "WRITE", content |-> "",
                          payload |-> IF writer_out.obj.updates = "list" THEN "updates"
                                      ELSE IF writer_out.obj.data = "dict" THEN "data"
                                      ELSE "data {}",
                          draft |-> a.draft, tool_results |-> a.tool_results])
        ELSE finish(Ask("unknown writer instruction"))

(***************************************************************************)
(* Idle values of the parts a specification does not run.                  *)
(***************************************************************************)
NoSchema == [done |-> FALSE, schema |-> build_sheet_schema(<<>>)]
AgIdle == [AgentStart(0) EXCEPT !.pc = "idle"]
ChatIdle == [pc |-> "idle"]
LocIdle == [pc |-> "idle"]

(***************************************************************************)
(* Spec: process_update called up to MaxUpdates times on one sheet.        *)
(***************************************************************************)
Init ==
    /\ sheet_data \in InitSheets
    /\ pre_sheet = sheet_data
    /\ last_action = NoAction
    /\ n_updates = 0
    /\ sch_in = <<>>
    /\ sch_out = NoSchema
    /\ ag = AgIdle
    /\ chat = ChatIdle
    /\ loc = LocIdle

ProcessUpdate ==
    /\ n_updates < MaxUpdates
    /\ \E action \in UpdateActions(Len(sheet_data), n_updates = 0) :
          /\ sheet_data' = process_update(sheet_data, action)
          /\ pre_sheet' = sheet_data
          /\ last_action' = action
          \* the call of build_sheet_schema at line 55, reached by an in-range row
          /\ IF in_range(action.target_row - 1, Len(sheet_data))
             THEN /\ sch_in' = sheet_data
                  /\ sch_out' = [done |-> TRUE, schema |-> build_sheet_schema(sheet_data)]
             ELSE UNCHANGED <<sch_in, sch_out>>
    /\ n_updates' = n_updates + 1
    /\ UNCHANGED <<ag, chat, loc>>

Next == ProcessUpdate

Spec == Init /\ [][Next]_vars

(***************************************************************************)
(* SpecSchema: build_sheet_schema called once on a sheet.                  *)
(***************************************************************************)
\* base header layouts: columns.BASIC_COLS (serial number, item name, spec, quantity,
\* unit), the layout of the docstring of build_sheet_schema (item name, model, brand,
\* quantity, unit), and BaseHeaders
BaseLayouts ==
    { << Str(<<"xu", "hao">>), Str(<<"wu", "pin", "ming", "cheng">>), Str(<<"gui", "ge">>),
         Str(<<"shu", "liang">>), Str(<<"dan", "wei">>) >>,
      << Str(<<"wu", "pin", "ming", "cheng">>), Str(<<"xing", "hao">>), Str(<<"pin", "pai">>),
         Str(<<"shu", "liang">>), Str(<<"dan", "wei">>) >>,
      BaseHeaders }

\* a header row of n columns over a base layout; the columns after the base columns
\* are named as columns.HEADERS names them
HeaderOfLen(layout, n) ==
    [c \in 1..n |->
        IF c <= BASIC_COLS_COUNT THEN layout[c]
        ELSE SlotHeader(((c - BASIC_COLS_COUNT - 1) \div SLOT_SIZE) + 1,
                        ((c - BASIC_COLS_COUNT - 1) % SLOT_SIZE) + 1)]

\* the widest header: MaxSlots full blocks and a partial block of six columns
MaxHeaderLen == BASIC_COLS_COUNT + SLOT_SIZE * MaxSlots + (SLOT_SIZE - 1)

\* columns.HEADERS: the six columns of BASIC_COLS (the brand after the unit) and
\* three blocks of SLOT_TEMPLATE
HEADERS ==
    << Str(<<"xu", "hao">>), Str(<<"wu", "pin", "ming", "cheng">>), Str(<<"gui", "ge">>),
       Str(<<"shu", "liang">>), Str(<<"dan", "wei">>), Str(<<"pin", "pai">>) >>
    \o [c \in 1..(SLOT_SIZE * 3) |->
            SlotHeader(((c - 1) \div SLOT_SIZE) + 1, ((c - 1) % SLOT_SIZE) + 1)]

\* the header of test_schema_does_not_map_unit_as_supplier: the six columns of
\* BASIC_COLS, then the supplier and the price column of slot 1
UnitSupplierHeaders == SubSeq(HEADERS, 1, 6) \o <<SlotHeader(1, 7), SlotHeader(1, 3)>>

\* the sheets given to build_sheet_schema: no sheet (None or an empty grid), a
\* header row of every width over every layout, alone or with one data row, and the
\* two headers over BASIC_COLS
SchemaInputs ==
    {<<>>, <<HEADERS>>, <<UnitSupplierHeaders>>}
    \cup {<<HeaderOfLen(layout, n)>> : layout \in BaseLayouts, n \in 0..MaxHeaderLen}
    \cup {<<HeaderOfLen(BaseHeaders, n), Row2Base>> : n \in 0..MaxHeaderLen}

SheetIdle ==
    /\ sheet_data = <<>>
    /\ pre_sheet = <<>>
    /\ last_action = NoAction
    /\ n_updates = 0

InitSchema ==
    /\ SheetIdle
    /\ sch_in \in SchemaInputs
    /\ sch_out = NoSchema
    /\ ag = AgIdle
    /\ chat = ChatIdle
    /\ loc = LocIdle

BuildSchema ==
    /\ ~sch_out.done
    /\ sch_out' = [done |-> TRUE, schema |-> build_sheet_schema(sch_in)]
    /\ UNCHANGED <<sheet_data, pre_sheet, last_action, n_updates, sch_in, ag, chat, loc>>

NextSchema == BuildSchema

SpecSchema == InitSchema /\ [][NextSchema]_vars

(***************************************************************************)
(* SpecAgent: one run of run_two_stage_agent against any oracle.           *)
(***************************************************************************)
InitAgent ==
    /\ SheetIdle
    /\ sch_in = <<>>
    /\ sch_out = NoSchema
    /\ ag \in {AgentStart(m) : m \in 0..MaxToolSteps}
    /\ chat = ChatIdle
    /\ loc = LocIdle

PlannerRound ==
    /\ ag.pc = "planner"
    /\ \E resp \in OracleResponses : ag' = planner_round(ag, resp)
    /\ UNCHANGED <<sheet_data, pre_sheet, last_action, n_updates, sch_in, sch_out, chat, loc>>

WriterPhase ==
    /\ ag.pc = "writer"
    /\ \E resp \in OracleResponses : ag' = writer_phase(ag, resp)
    /\ UNCHANGED <<sheet_data, pre_sheet, last_action, n_updates, sch_in, sch_out, chat, loc>>

NextAgent == PlannerRound \/ WriterPhase

SpecAgent == InitAgent /\ [][NextAgent]_vars

(***************************************************************************)
(* SpecChat: api/routes.py, chat_endpoint from the request to the response. *)
(***************************************************************************)
MaxItems == 2

\* a key that a dict does not have
Absent == [k |-> "absent", n |-> 0, s |-> <<>>]

\* bool(v) of the value dict.get gives
PyBool(v) ==
    CASE v.k = "num" -> v.n # 0
      [] v.k = "bool" -> v.n = 1
      [] v.k = "str" -> v.s # <<>>
      [] OTHER -> FALSE

\* sheet_schema.extract_row_from_message: the number of the leftmost run of digits
\* that is followed by optional blanks and the character "hang" (row); None without one
extract_row_from_message(message) ==
    LET RunEnd(i) == CHOOSE e \in i..Len(message) :
                         /\ \A c \in i..e : IsDigitChar(message[c])
                         /\ (e = Len(message) \/ ~IsDigitChar(message[e + 1]))
        Matches(i) ==
            /\ IsDigitChar(message[i])
            /\ (i = 1 \/ ~IsDigitChar(message[i - 1]))
            /\ \E h \in (RunEnd(i) + 1)..Len(message) :
                  /\ message[h] = "hang"
                  /\ \A c \in (RunEnd(i) + 1)..(h - 1) : message[c] \in Whitespace
        starts == {i \in 1..Len(message) : Matches(i)}
    IN  IF starts = {} THEN None
        ELSE LET i == CHOOSE s \in starts : \A s2 \in starts : s <= s2
             IN  Num(DecimalValue(SubSeq(message, i, RunEnd(i))))

\* the messages of the model: one naming row 2, one naming row 0, one naming no row
Messages ==
    { <<"di", "2", "hang", " ", "bao", "jia">>,
      <<"di", " ", "0", " ", "hang">>,
      <<"dian", "ji", "bao", "jia", "1", "yuan">> }

\* an element of the updates list, or the data of a WRITE: isdict says whether it is a
\* JSON object, the other fields are its entries (Absent for a missing key)
Item(target_row, price, tax, shipping, delivery_time) ==
    [isdict |-> TRUE, target_row |-> target_row, price |-> price, tax |-> tax,
     shipping |-> shipping, delivery_time |-> delivery_time]

NonDictItem == [Item(Absent, Absent, Absent, Absent, Absent) EXCEPT !.isdict = FALSE]

Items ==
    { NonDictItem,
      Item(Num(2), Num(1), Bool(TRUE), Bool(TRUE), Str(<<"3", "tian">>)),
      Item(Num(3), Num(3), Bool(FALSE), Str(<<"bao", "you">>), Str(<<"xian", "huo">>)),
      Item(Num(2), Absent, Bool(TRUE), Bool(TRUE), Str(<<"3", "tian">>)),
      Item(Absent, Num(2), Bool(TRUE), Bool(FALSE), Str(<<"3", "tian">>)),
      Item(Num(2), Str(<<"mian", "yi">>), Bool(TRUE), Bool(TRUE), Str(<<"3", "tian">>)) }

RECURSIVE ItemLists(_)
\* the lists of at most n items
ItemLists(n) ==
    IF n = 0 THEN {<<>>}
    ELSE ItemLists(n - 1) \cup {Append(l, it) : l \in {x \in ItemLists(n - 1) : Len(x) = n - 1}, it \in Items}

\* what run_two_stage_agent returns: an ASK, a WRITE with an updates list, or a WRITE
\* with data; ambiguous says whether its tool results hold a locate_row result with
\* several candidates
AgentOut(action, has_updates, updates, data, ambiguous) ==
    [action |-> action, has_updates |-> has_updates, updates |-> updates, data |-> data,
     ambiguous |-> ambiguous]

AgentOuts ==
    {AgentOut("ASK", FALSE, <<>>, NonDictItem, FALSE)}
    \cup {AgentOut("WRITE", TRUE, l, NonDictItem, FALSE) : l \in ItemLists(MaxItems)}
    \cup {AgentOut("WRITE", FALSE, <<>>, d, a) : d \in Items, a \in BOOLEAN}

\* a ChatResponse, or the exception that leaves chat_endpoint
ChatResponse(action, content, updated_sheet, updated_rows) ==
    [kind |-> "return", action |-> action, content |-> content,
     updated_sheet |-> updated_sheet, updated_rows |-> updated_rows]
ChatAsk(content) == ChatResponse("ASK", content, <<>>, <<>>)
ChatRaise(error) == [ChatAsk(error) EXCEPT !.kind = "raise", !.action = ""]
NoResponse == [ChatAsk("") EXCEPT !.kind = "none", !.action = ""]

\* lines 381-387: the required fields, read off the first slot
required_fields_of(schema) ==
    IF Len(schema.slots) > 0
    THEN {f \in {"danjia", "hanshui", "hanyun", "huoqi"} : f \in DOMAIN schema.slots[1]}
    ELSE {"danjia", "hanshui", "hanyun", "huoqi"}

\* a test that finds a price column in every schema
has_price_col_always(schema) == TRUE

\* line 389
has_price_col(schema) == \E s \in 1..Len(schema.slots) : "danjia" \in DOMAIN schema.slots[s]

\* lines 576-578 (and 668-670): the row named in the message fills a missing target_row
with_explicit_row(data_dict, explicit_row) ==
    IF ~PyBool(data_dict.target_row) /\ PyBool(explicit_row)
    THEN [data_dict EXCEPT !.target_row = explicit_row]
    ELSE data_dict

\* lines 580-591 (and 704-715): the names of the required fields the item lacks
missing_of(data_dict, required) ==
    (IF "danjia" \in required /\ ~PyBool(data_dict.price) /\ data_dict.price # Num(0)
     THEN <<"danjia">> ELSE <<>>)
    \o (IF "hanshui" \in required /\ data_dict.tax = Absent THEN <<"hanshui">> ELSE <<>>)
    \o (IF "hanyun" \in required /\ data_dict.shipping = Absent THEN <<"hanyun">> ELSE <<>>)
    \o (IF "huoqi" \in required /\ ~PyBool(data_dict.delivery_time) THEN <<"huoqi">> ELSE <<>>)
    \o (IF ~PyBool(data_dict.target_row) THEN <<"hanghao">> ELSE <<>>)

\* models/types.py UpdateAction(**cleaned): ok is FALSE when pydantic rejects the
\* values (a target_row or price that is no number, a tax that is no bool, a
\* delivery_time that is no string)
UpdateAction(cleaned) ==
    LET ok == /\ cleaned.target_row.k = "num"
              /\ cleaned.price.k = "num" \/ (cleaned.price.k = "str" /\ PyFloat(cleaned.price) # Inf)
              /\ cleaned.tax.k \in {"bool", "absent"}
              /\ cleaned.shipping.k \in {"bool", "str", "none", "absent"}
              /\ cleaned.delivery_time.k = "str"
    IN  [ok |-> ok,
         action |-> IF ~ok THEN NoAction
                    ELSE [NoAction EXCEPT
                            !.target_row = cleaned.target_row.n,
                            !.price = PyFloat(cleaned.price),
                            !.tax = (cleaned.tax = Bool(TRUE)),
                            !.shipping = IF cleaned.shipping = Absent THEN Bool(FALSE)
                                         ELSE cleaned.shipping,
                            !.delivery_time = cleaned.delivery_time]]

\* the parameters of excel_core.process_update (line 45)
PROCESS_UPDATE_PARAMS == {"sheet_data", "action", "db"}

\* the keyword arguments of the calls at routes.py lines 619 and 741
CALL_KEYWORDS == {"user_id"}

\* the call process_update(current_sheet, update_action, db, **keywords): a keyword
\* that names no parameter raises TypeError before the body runs
call_process_update(sheet, action, keywords) ==
    IF keywords \subseteq PROCESS_UPDATE_PARAMS
    THEN [raised |-> FALSE, sheet |-> process_update(sheet, action)]
    ELSE [raised |-> TRUE, sheet |-> sheet]

\* the cap of updates[:50], line 571
BATCH_CAP == 50

\* lines 571-620: the for loop over updates[:50] from the i-th item on; the response
\* when the loop returns or raises, else the end of the batch path (lines 622-662)
RECURSIVE batch_loop(_, _, _, _, _, _)
batch_loop(updates, i, current_sheet, updated_rows, required, explicit_row) ==
    IF i > Len(updates) \/ i > BATCH_CAP
    THEN IF updated_rows = <<>> THEN ChatAsk("no executable update")
         \* the reminder loop of lines 627-631 calls .get on every element of updates
         ELSE IF \E n \in 1..Len(updates) : ~updates[n].isdict
              THEN ChatRaise("AttributeError")
              ELSE ChatResponse("WRITE", "updated", current_sheet, updated_rows)
    ELSE LET item == updates[i]
             data_dict == with_explicit_row(item, explicit_row)
             update_action == UpdateAction(data_dict)
             call == call_process_update(current_sheet, update_action.action, CALL_KEYWORDS)
         IN  IF ~item.isdict
             THEN batch_loop(updates, i + 1, current_sheet, updated_rows, required, explicit_row)
             ELSE IF missing_of(data_dict, required) # <<>> THEN ChatAsk("please supply")
             ELSE IF ~update_action.ok THEN ChatRaise("ValidationError")
             ELSE IF call.raised THEN ChatRaise("TypeError")
             ELSE batch_loop(updates, i + 1, call.sheet,
                             Append(updated_rows, update_action.action.target_row),
                             required, explicit_row)

\* lines 664-763: the path of a WRITE that carries data and no updates list
single_update(sheet, agent_out, required, explicit_row) ==
    LET data_dict == with_explicit_row(agent_out.data, explicit_row)
        update_action == UpdateAction(data_dict)
        call == call_process_update(sheet, update_action.action, CALL_KEYWORDS)
    IN  IF ~agent_out.data.isdict THEN ChatAsk("bad data format")
        ELSE IF ~PyBool(explicit_row) /\ agent_out.ambiguous /\ ~PyBool(data_dict.target_row)
             THEN ChatAsk("several candidates")
        ELSE IF missing_of(data_dict, required) # <<>> THEN ChatAsk("please supply")
        \* the try of lines 718-763: any exception becomes an ASK
        ELSE IF ~update_action.ok \/ call.raised THEN ChatAsk("update failed")
        ELSE ChatResponse("WRITE", "updated", call.sheet, <<update_action.action.target_row>>)

\* lines 560-765: the response to what the agent returned
respond(sheet, message, required, agent_out) ==
    LET explicit_row == extract_row_from_message(message)
    IN  IF agent_out.action = "ASK" THEN ChatAsk("agent content")
        ELSE IF agent_out.action = "WRITE"
             THEN IF agent_out.has_updates
                  THEN IF agent_out.updates = <<>> THEN ChatAsk("no update list")
                       ELSE batch_loop(agent_out.updates, 1, sheet, <<>>, required, explicit_row)
                  ELSE single_update(sheet, agent_out, required, explicit_row)
        ELSE ChatAsk("unknown instruction")

\* the requests: no sheet, a sheet without slot columns, and two sheets with slots
ChatSheets ==
    { <<>>,
      <<HeaderRow(0, 0), Row2Base, Row3>>,
      <<HeaderRow(1, 0), Row2Base \o OfferBlock(1, Num(2)), Row3>>,
      <<HeaderRow(2, 0), Row2Base \o OfferBlock(1, Num(2)) \o EmptyBlock, Row3>> }

ChatStart(message) ==
    [pc |-> "start", message |-> message, required_fields |-> {},
     agent_out |-> AgentOut("", FALSE, <<>>, NonDictItem, FALSE), response |-> NoResponse]

InitChat ==
    /\ sheet_data \in ChatSheets
    /\ pre_sheet = sheet_data
    /\ last_action = NoAction
    /\ n_updates = 0
    /\ sch_in = <<>>
    /\ sch_out = NoSchema
    /\ ag = AgIdle
    /\ chat \in {ChatStart(m) : m \in Messages}
    /\ loc = LocIdle

\* lines 374-391: the schema of the request's sheet and the test for a price column
ChatSchema ==
    /\ chat.pc = "start"
    /\ LET schema == build_sheet_schema(sheet_data)
       IN  /\ sch_in' = sheet_data
           /\ sch_out' = [done |-> TRUE, schema |-> schema]
           /\ chat' = IF has_price_col(schema)
                      THEN [chat EXCEPT !.pc = "agent",
                                        !.required_fields = required_fields_of(schema)]
                      ELSE [chat EXCEPT !.pc = "done", !.response = ChatAsk("no price column")]
    /\ UNCHANGED <<sheet_data, pre_sheet, last_action, n_updates, ag, loc>>

\* lines 544-765: the agent's answer and everything chat_endpoint does with it;
\* sheet_data becomes the updated_sheet of a WRITE response
ChatRespond ==
    /\ chat.pc = "agent"
    /\ \E agent_out \in AgentOuts :
          LET response == respond(sheet_data, chat.message, chat.required_fields, agent_out)
          IN  /\ chat' = [chat EXCEPT !.pc = "done", !.agent_out = agent_out,
                                      !.response = response]
              /\ sheet_data' = IF response.kind = "return" /\ response.action = "WRITE"
                               THEN response.updated_sheet ELSE sheet_data
    /\ UNCHANGED <<pre_sheet, last_action, n_updates, sch_in, sch_out, ag, loc>>

NextChat == ChatSchema \/ ChatRespond

SpecChat == InitChat /\ [][NextChat]_vars

(***************************************************************************)
(* SpecLocate: one call of a row lookup of sheet_schema,                   *)
(* locate_rows_by_criteria or fuzzy_match_rows.                            *)
(***************************************************************************)
MaxRows == 2

\* max_scan_rows, the default of line 344
MAX_SCAN_ROWS == 3000

\* sheet_schema._cell_text
cell_text(v) == IF IsNone(v) THEN <<>> ELSE Strip(PyStr(v))

\* a test that takes every criteria for weak
weak_always(q_name, q_brand, q_model, q_spec) == TRUE

\* lines 363-369, on the normalised criteria
weak_only(q_name, q_brand, q_model, q_spec) ==
    IF q_model # <<>> \/ q_spec # <<>> THEN FALSE
    ELSE IF q_name # <<>> /\ Len(q_name) <= 2 /\ q_brand = <<>> THEN TRUE
    ELSE q_brand # <<>> /\ q_name = <<>>

\* lines 389-395: the score after the name block; nh is the row's name
after_name(score, q_name, nh) ==
    IF q_name # <<>> /\ nh # <<>>
    THEN IF q_name = nh THEN score + 1200
         ELSE IF IsSubstr(q_name, nh)
              THEN score + 350 + (IF Len(q_name) < 50 THEN Len(q_name) ELSE 50)
         ELSE IF IsSubstr(nh, q_name)
              THEN score + 200 + (IF Len(nh) < 50 THEN Len(nh) ELSE 50)
         ELSE score
    ELSE score

\* lines 397-401, 403-409 and 411-418: the score after the brand, the model or the
\* spec block, which differ in what an equal text adds (exact), what a text holding
\* or held by the other adds (partial, and at most 30 for the length of the
\* criterion), and what the score becomes when the two do not match (unmatched)
after_field(score, q_text, h, exact, partial, unmatched) ==
    IF q_text # <<>> /\ h # <<>>
    THEN IF q_text = h THEN score + exact
         ELSE IF IsSubstr(q_text, h) \/ IsSubstr(h, q_text)
              THEN score + partial + (IF Len(q_text) < 30 THEN Len(q_text) ELSE 30)
              ELSE unmatched
    ELSE score

\* lines 377-418: the score of one row.  col_norm is _col_norm of lines 379-382; an
\* unmatched brand leaves the score, an unmatched model makes it 0 (line 409), an
\* unmatched spec makes it 0 when a model was asked for (lines 417-418)
row_score(row, cols, q) ==
    LET col_norm(idx) ==
            IF idx = NoIdx \/ idx < 0 \/ idx >= Len(row) THEN <<>>
            ELSE normalize_header(Str(cell_text(row[idx + 1])))
        named == after_name(0, q.name, col_norm(cols.name))
        branded == after_field(named, q.brand, col_norm(cols.brand), 800, 250, named)
        modelled == after_field(branded, q.model, col_norm(cols.model), 1600, 500, 0)
    IN  after_field(modelled, q.spec, col_norm(cols.spec), 900, 250,
                    IF q.model # <<>> THEN 0 ELSE modelled)

\* lines 371-422: the (row number, score) pairs of the rows from position i on
RECURSIVE scored_from(_, _, _, _)
scored_from(sheet, cols, q, i) ==
    IF i > Len(sheet) \/ i > MAX_SCAN_ROWS THEN <<>>
    ELSE LET score == row_score(sheet[i], cols, q)
         IN  (IF score <= 0 THEN <<>> ELSE <<[row |-> i, score |-> score]>>)
             \o scored_from(sheet, cols, q, i + 1)

\* scored.sort(key=lambda x: x[1], reverse=True), line 424: a stable sort, so rows of
\* one score stay in row order
RECURSIVE sort_scored(_)
sort_scored(scored) ==
    IF scored = <<>> THEN <<>>
    ELSE LET m == CHOOSE a \in 1..Len(scored) :
                     \A b \in 1..Len(scored) :
                         \/ scored[a].score > scored[b].score
                         \/ (scored[a].score = scored[b].score /\ a <= b)
         IN  <<scored[m]>>
             \o sort_scored(SubSeq(scored, 1, m - 1) \o SubSeq(scored, m + 1, Len(scored)))

\* lines 427-444: the candidate of one scored row; raw is _raw of lines 429-436
candidate_of(sheet, cols, entry) ==
    LET row == sheet[entry.row]
        raw(idx) ==
            IF idx = NoIdx \/ idx < 0 \/ idx >= Len(row) THEN None
            ELSE LET v == row[idx + 1]
                 IN  IF IsNone(v) THEN None
                     ELSE IF Strip(PyStr(v)) = <<>> \/ Lower(Strip(PyStr(v))) = NoneText
                          THEN None
                          ELSE v
    IN  [row |-> entry.row, score |-> entry.score,
         name |-> raw(cols.name), brand |-> raw(cols.brand),
         model |-> raw(cols.model), spec |-> raw(cols.spec)]

\* sheet_schema.locate_rows_by_criteria; q holds the criteria normalised as in lines
\* 355-358, empty when a criterion is no string
locate_rows_by_criteria(sheet, item_name, brand, model, spec, max_candidates) ==
    LET query_norm(v) == IF IsStr(v) THEN normalize_header(v) ELSE <<>>
        q == [name |-> query_norm(item_name), brand |-> query_norm(brand),
              model |-> query_norm(model), spec |-> query_norm(spec)]
        cols == infer_item_columns(sheet[1])
        scored == sort_scored(scored_from(sheet, cols, q, 2))
        top == SubSeq(scored, 1, IF Len(scored) < max_candidates THEN Len(scored)
                                                                       ELSE max_candidates)
        candidates == [n \in 1..Len(top) |-> candidate_of(sheet, cols, top[n])]
    IN  IF Len(sheet) < 2 THEN [candidates |-> <<>>, ambiguous |-> FALSE]
        ELSE IF q.name = <<>> /\ q.brand = <<>> /\ q.model = <<>> /\ q.spec = <<>>
             THEN [candidates |-> <<>>, ambiguous |-> FALSE]
        ELSE [candidates |-> candidates,
              ambiguous |-> weak_only(q.name, q.brand, q.model, q.spec) /\ Len(candidates) > 1]

\* Scores of fuzzy_match_score are kept exact: the score s (0..100) is the integer
\* s * RatioScale, which is whole for texts of at most ten characters together.
RatioScale == 8 * 9 * 5 * 7

\* the size SequenceMatcher(None, a, b) matches (line 27): the longest common block,
\* the one earliest in a and then earliest in b, and the same again to its left and
\* to its right.  The junk heuristic of difflib does not act below 200 characters.
RECURSIVE matching_size(_, _)
matching_size(a, b) ==
    LET blocks == {x \in (1..Len(a)) \X (1..Len(b)) \X (1..Len(a)) :
                      /\ x[1] + x[3] - 1 <= Len(a)
                      /\ x[2] + x[3] - 1 <= Len(b)
                      /\ SubSeq(a, x[1], x[1] + x[3] - 1) = SubSeq(b, x[2], x[2] + x[3] - 1)}
    IN  IF blocks = {} THEN 0
        ELSE LET m == CHOOSE x \in blocks : \A y \in blocks :
                          \/ x[3] > y[3]
                          \/ x[3] = y[3] /\ x[1] < y[1]
                          \/ x[3] = y[3] /\ x[1] = y[1] /\ x[2] <= y[2]
             IN  m[3] + matching_size(SubSeq(a, 1, m[1] - 1), SubSeq(b, 1, m[2] - 1))
                      + matching_size(SubSeq(a, m[1] + m[3], Len(a)), SubSeq(b, m[2] + m[3], Len(b)))

\* sheet_schema.fuzzy_match_score, on two texts: ratio() * 100 = 200 * M / T
fuzzy_match_score(str1, str2) ==
    IF str1 = <<>> \/ str2 = <<>> THEN 0
    ELSE LET norm1 == normalize_header(Str(str1))
             norm2 == normalize_header(Str(str2))
         IN  IF norm1 = <<>> \/ norm2 = <<>> THEN 0
             ELSE (200 * matching_size(norm1, norm2) * RatioScale) \div (Len(norm1) + Len(norm2))

\* a threshold test that leaves out the row scoring exactly the threshold
above_threshold(max_score, threshold) == max_score > threshold * RatioScale

\* line 639
reaches_threshold(max_score, threshold) == max_score >= threshold * RatioScale

\* lines 595-648: the results of the rows from position i on; get_val is _get_val,
\* m1..m3 are max_score and match_field after the model, name and spec blocks
RECURSIVE fuzzy_results_from(_, _, _, _, _, _)
fuzzy_results_from(sheet, cols, query, brand_filter, threshold, i) ==
    IF i > Len(sheet) THEN <<>>
    ELSE LET row == sheet[i]
             get_val(idx) ==
                 IF idx = NoIdx \/ idx < 0 \/ idx >= Len(row) THEN <<>>
                 ELSE IF IsNone(row[idx + 1]) THEN <<>> ELSE Strip(PyStr(row[idx + 1]))
             name == get_val(cols.name)
             brand == get_val(cols.brand)
             model == get_val(cols.model)
             spec == get_val(cols.spec)
             or_none(s) == IF s = <<>> THEN None ELSE Str(s)
             better(m, text, field) ==
                 IF text # <<>> /\ fuzzy_match_score(query, text) > m.score
                 THEN [score |-> fuzzy_match_score(query, text), field |-> field]
                 ELSE m
             m1 == better([score |-> 0, field |-> ""], model, "xinghao")
             m2 == better(m1, name, "chanpinmingcheng")
             m3 == better(m2, spec, "guige")
             rest == fuzzy_results_from(sheet, cols, query, brand_filter, threshold, i + 1)
         IN  IF Truthy(brand_filter) /\ fuzzy_match_score(brand_filter.s, brand) < 70 * RatioScale
             THEN rest
             ELSE IF reaches_threshold(m3.score, threshold)
                  THEN <<[row |-> i, score |-> m3.score, match_field |-> m3.field,
                          name |-> or_none(name), brand |-> or_none(brand),
                          model |-> or_none(model), spec |-> or_none(spec)]>> \o rest
                  ELSE rest

\* sheet_schema.fuzzy_match_rows; the sort of line 652 is the stable descending sort
\* by score that sort_scored is
fuzzy_match_rows(sheet, query, brand_filter, threshold, max_results) ==
    IF Len(sheet) < 2 THEN <<>>
    ELSE IF ~Truthy(query) \/ Strip(query.s) = <<>> THEN <<>>
    ELSE LET results == sort_scored(fuzzy_results_from(sheet, infer_item_columns(sheet[1]),
                                                       query.s, brand_filter, threshold, 2))
         IN  SubSeq(results, 1, IF Len(results) < max_results THEN Len(results) ELSE max_results)

\* The calls of locate_rows_by_criteria and of fuzzy_match_rows that are made.  The sheets are the empty grid
\* and BaseHeaders over at most MaxRows data rows (number, name, brand, model, spec;
\* one row is short); the criteria are a name of two characters, of one, of five, a
\* brand, a blank brand, two models, a spec; max_candidates is the 5 of the default
\* and of routes.py line 455, or 1.  fuzzy_match_rows is asked for a model, a longer
\* model, a name, a blank and no query, with no brand filter, a brand and the start of
\* a brand, at thresholds at and next to scores that occur (50, 80; 80 is the
\* default), for at most 1 and 10 (routes.py line 296) results.
InitLocate ==
    LET Siemens == <<"xi", "men", "zi">>
        Motor == <<"dian", "ji">>
        Fan == <<"feng", "ji">>
        ItemRow(number, name, brand, model, spec) ==
            <<Str(number), Str(name), brand, model, spec>>
        LocRows ==
            { ItemRow(<<"1">>, Siemens \o Motor, Str(Siemens), Str(<<"M", "1">>), Str(<<"1", "K", "W">>)),
              ItemRow(<<"2">>, Siemens \o Fan, Str(Siemens), Str(<<"F", "1">>), Str(<<"1", "K", "W">>)),
              ItemRow(<<"3">>, Motor, Str(<<"A", "B">>), Str(<<"M", "1">>), Str(<<"2", "K", "W">>)),
              ItemRow(<<"4">>, Motor, None, Str(<<"M", "1", "2">>), None),
              ItemRow(<<"6">>, Motor, None, None, Str(<<"2", "K", "W">>)),
              <<Str(<<"5">>), Str(Fan)>> }
        LocSheets ==
            {<<>>} \cup {<<BaseHeaders>> \o rows : rows \in UNION {[1..n -> LocRows] : n \in 0..MaxRows}}
        LocQueries ==
            [item_name : {None, Str(Motor), Str(<<"ji">>), Str(Siemens \o Motor)},
             brand : {None, Str(Siemens), Str(<<" ">>)},
             model : {None, Str(<<"M", "1">>), Str(<<"F", "1">>)},
             spec : {None, Str(<<"1", "K", "W">>)}]
        FuzzyQueries ==
            [query : {None, Str(<<" ">>), Str(<<"M", "1">>), Str(<<"M", "1", "2">>), Str(Motor)},
             brand_filter : {None, Str(Siemens), Str(<<"xi", "men">>)},
             threshold : {50, 80, 81},
             max_results : {1, 10}]
    IN  /\ SheetIdle
        /\ sch_in = <<>>
        /\ sch_out = NoSchema
        /\ ag = AgIdle
        /\ chat = ChatIdle
        /\ \/ \E sheet \in LocSheets, q \in LocQueries, cap \in {1, 5} :
                 loc = [pc |-> "call", fn |-> "locate_rows_by_criteria", sheet |-> sheet,
                        query |-> q, max_candidates |-> cap,
                        out |-> [candidates |-> <<>>, ambiguous |-> FALSE]]
           \/ \E sheet \in LocSheets, q \in FuzzyQueries :
                 loc = [pc |-> "call", fn |-> "fuzzy_match_rows", sheet |-> sheet,
                        query |-> q, out |-> <<>>]

LocateRows ==
    /\ loc.pc = "call"
    /\ loc.fn = "locate_rows_by_criteria"
    /\ loc' = [loc EXCEPT !.pc = "done",
                          !.out = locate_rows_by_criteria(loc.sheet, loc.query.item_name,
                                      loc.query.brand, loc.query.model, loc.query.spec,
                                      loc.max_candidates)]
    /\ UNCHANGED <<sheet_data, pre_sheet, last_action, n_updates, sch_in, sch_out, ag, chat>>

FuzzyMatch ==
    /\ loc.pc = "call"
    /\ loc.fn = "fuzzy_match_rows"
    /\ loc' = [loc EXCEPT !.pc = "done",
                          !.out = fuzzy_match_rows(loc.sheet, loc.query.query,
                                      loc.query.brand_filter, loc.query.threshold,
                                      loc.query.max_results)]
    /\ UNCHANGED <<sheet_data, pre_sheet, last_action, n_updates, sch_in, sch_out, ag, chat>>

NextLocate == LocateRows \/ FuzzyMatch

SpecLocate == InitLocate /\ [][NextLocate]_vars

(***************************************************************************)
(* SpecAction: models/types.py, the two validators of UpdateAction run on  *)
(* a tax and a shipping value as the oracle may give them.                 *)
(***************************************************************************)
\* a validator for tax that takes no text for a boolean
coerce_bool_only(v) ==
    CASE v.k = "num" -> Bool(v.n # 0)
      [] OTHER -> v

\* UpdateAction._coerce_bool_zh, the validator of tax: the value handed on to the
\* field, which takes a bool and nothing else of what is handed on here
coerce_bool_zh(v) ==
    LET s == Lower(Strip(v.s))
        yes == { <<"t", "r", "u", "e">>, <<"t">>, <<"y", "e", "s">>, <<"y">>, <<"1">>, <<"shi">>,
                 <<"han", "shui">>, <<"han", "yun">>, <<"han", "shui", "yun">>,
                 <<"han", "yun", "fei">>, <<"han", "shui", "han", "yun">>,
                 <<"han", "shui", "/", "han", "yun">> }
        no == { <<"f", "a", "l", "s", "e">>, <<"f">>, <<"n", "o">>, <<"n">>, <<"0">>, <<"fou">>,
                <<"bu", "han", "shui">>, <<"bu", "han", "yun">>,
                <<"bu", "han", "shui", "bu", "han", "yun">>,
                <<"bu", "han", "shui", "/", "bu", "han", "yun">> }
    IN  CASE v.k = "bool" -> v
          [] v.k = "none" -> v
          [] v.k = "num" -> Bool(v.n # 0)
          [] v.k = "str" /\ s \in yes -> Bool(TRUE)
          [] v.k = "str" /\ s \in no -> Bool(FALSE)
          [] OTHER -> v

\* UpdateAction._coerce_shipping_zh, the validator of shipping
coerce_shipping_zh(v) ==
    LET s == Strip(v.s)
        sl == Lower(s)
        yes == { <<"t", "r", "u", "e">>, <<"t">>, <<"y", "e", "s">>, <<"y">>, <<"1">>, <<"shi">>,
                 <<"han", "yun">>, <<"han", "yun", "fei">>, <<"bao", "you">>,
                 <<"han", "shui", "yun">>, <<"han", "shui", "/", "han", "yun">> }
        no == { <<"f", "a", "l", "s", "e">>, <<"f">>, <<"n", "o">>, <<"n">>, <<"0">>, <<"fou">>,
                <<"bu", "han", "yun">>, <<"bu", "han", "yun", "fei">> }
    IN  CASE v.k = "bool" -> v
          [] v.k = "none" -> v
          [] v.k = "num" -> Bool(v.n # 0)
          [] v.k = "str" /\ sl \in yes -> Bool(TRUE)
          [] v.k = "str" /\ sl \in no -> Bool(FALSE)
          [] v.k = "str" /\ s # <<>> -> Str(s)
          [] OTHER -> v

\* The values given: no value, booleans, numbers, every token the claim names and more
\* of the two lists in lower and upper case and between blanks, and texts that are no
\* token, with and without blanks around them, empty and blank.
InitAction ==
    LET Texts ==
            { <<"y", "e", "s">>, <<"Y", "e", "s">>, <<"t", "r", "u", "e">>, <<" ", "T", "R", "U", "E", " ">>,
              <<"1">>, <<"shi">>, <<"han", "shui">>, <<"han", "yun">>, <<" ", "han", "yun">>,
              <<"han", "yun", "fei">>, <<"bao", "you">>, <<"han", "shui", "/", "han", "yun">>,
              <<"n", "o">>, <<"N", "O">>, <<"f", "a", "l", "s", "e">>, <<"0">>, <<"fou">>,
              <<"bu", "han", "shui">>, <<"bu", "han", "yun">>, <<"bu", "han", "yun", "fei">>,
              <<"man", "1", "0", "0", "0", "bao", "you">>,
              <<" ", "man", "1", "0", "0", "0", "bao", "you", " ">>,
              <<"dai", "ding">>, <<>>, <<" ">> }
        Values == {None, Bool(TRUE), Bool(FALSE), Num(0), Num(2)} \cup {Str(x) : x \in Texts}
    IN  /\ SheetIdle
        /\ sch_in = <<>>
        /\ sch_out = NoSchema
        /\ ag = AgIdle
        /\ loc = LocIdle
        /\ \E tax \in Values, shipping \in Values :
              chat = [pc |-> "validate", given |-> [tax |-> tax, shipping |-> shipping],
                      tax |-> None, shipping |-> None]

\* the two validators run before the fields are checked
ValidateAction ==
    /\ chat.pc = "validate"
    /\ chat' = [chat EXCEPT !.pc = "validated",
                            !.tax = coerce_bool_zh(chat.given.tax),
                            !.shipping = coerce_shipping_zh(chat.given.shipping)]
    /\ UNCHANGED <<sheet_data, pre_sheet, last_action, n_updates, sch_in, sch_out, ag, loc>>

SpecAction == InitAction /\ [][ValidateAction]_vars

(***************************************************************************)
(* Properties of process_update (Spec).  pre_sheet is the grid the last     *)
(* call was given, last_action its action, sheet_data the grid it returned, *)
(* sch_out the schema the call built from pre_sheet when the row was in     *)
(* range.                                                                   *)
(***************************************************************************)
Acted == n_updates > 0
InRange == Acted /\ last_action.target_row \in 1..Len(pre_sheet)
UpdSchema == sch_out.schema
NSlots == Len(UpdSchema.slots)
SlotBefore(n) == get_slot_values(pre_sheet[last_action.target_row], UpdSchema, n)
SlotAfter(n) == get_slot_values(sheet_data[last_action.target_row], UpdSchema, n)
Priced(vals) == get_price(vals) # Inf
PriceBefore(n) == get_price(SlotBefore(n))
PriceAfter(n) == get_price(SlotAfter(n))
PricedBefore == {n \in 1..NSlots : Priced(SlotBefore(n))}
PricedAfter == {n \in 1..NSlots : Priced(SlotAfter(n))}

MaxPriceBefore == CHOOSE p \in 0..Inf : (\E n \in PricedBefore : PriceBefore(n) = p)
                                        /\ \A n \in PricedBefore : PriceBefore(n) <= p
LastRanked == CHOOSE n \in PricedBefore :
                  /\ PriceBefore(n) = MaxPriceBefore
                  /\ \A m \in PricedBefore : PriceBefore(m) = MaxPriceBefore => m <= n
RowWasFull == InRange /\ NSlots >= 1 /\ PricedBefore = 1..NSlots

Intact(j) == \E i \in PricedBefore : SlotAfter(j) = SlotBefore(i)

C10_OutOfRangeNoOp ==
    (Acted /\ last_action.target_row \notin 1..Len(pre_sheet)) => sheet_data = pre_sheet

\* rows below 1 and above the last one were both tried on a sheet with slots
C10_Witness ==
    /\ Acted /\ Len(pre_sheet[1]) >= BASIC_COLS_COUNT + SLOT_SIZE
    /\ last_action.target_row = 0
    /\ sheet_data = pre_sheet

\* The slots that hold the new offer after the call: not empty and equal to no offer
\* the row held before (at most one slot, by C4; none when the new offer was dropped).
NewSlots == IF InRange THEN {j \in 1..NSlots : SlotAfter(j) # empty_offer /\ ~Intact(j)} ELSE {}
\* the text of an item column of the target row before the call (None when absent)
TargetText(field) == row_item_text(pre_sheet[last_action.target_row], UpdSchema.item_columns[field])
\* a quoted text that is given (a string that is not blank)
Given(v) == IsStr(v) /\ Strip(v.s) # <<>>
\* a text with its case, its whitespace and the width of its punctuation folded away
Fold(s) == Lower(HalfWidthAll(SelectSeq(s, LAMBDA c : c \notin Whitespace)))
\* the quoted text is given, the row has the text, and the two differ once folded
Differs(quoted, row_text) ==
    Given(quoted) /\ IsStr(row_text) /\ Fold(quoted.s) # Fold(row_text.s)
MismatchText(prefix, quoted, row_text) ==
    prefix \o Strip(quoted.s) \o MismatchMiddle \o row_text.s \o <<")">>
ModelMismatchText == MismatchText(MismatchModelPrefix, last_action.quoted_model, TargetText("model"))
SpecMismatchText == MismatchText(MismatchSpecPrefix, last_action.quoted_spec, TargetText("spec"))
ModelDiffers == Differs(last_action.quoted_model, TargetText("model"))
SpecDiffers == Differs(last_action.quoted_spec, TargetText("spec"))
\* the remark written with the new offer in slot j
RemarkAfter(j) == SlotAfter(j)["beizhu"]
StartsWith(s, prefix) == Len(prefix) <= Len(s) /\ SubSeq(s, 1, Len(prefix)) = prefix

SameFolded(quoted, row_text) ==
    Given(quoted) /\ IsStr(row_text) /\ Fold(quoted.s) = Fold(row_text.s)
HasText(v, text) == IsStr(v) /\ IsSubstr(text, v.s)

\* C14: when quoted_spec equals the row's spec (quoted_model the row's model) up to
\* letter case, whitespace and the width of punctuation, the remark written with the
\* new offer holds no spec (model) mismatch text, unless the action's own remark
\* already held one; when neither text differs the remark written is the action's.
C14_NoMismatchWhenEqualFolded ==
    \A j \in NewSlots :
        /\ SameFolded(last_action.quoted_spec, TargetText("spec")) =>
              (HasText(RemarkAfter(j), MismatchSpecPrefix)
                  => HasText(last_action.remarks, MismatchSpecPrefix))
        /\ SameFolded(last_action.quoted_model, TargetText("model")) =>
              (HasText(RemarkAfter(j), MismatchModelPrefix)
                  => HasText(last_action.remarks, MismatchModelPrefix))
        /\ (~ModelDiffers /\ ~SpecDiffers) => RemarkAfter(j) = last_action.remarks

\* quoted_spec "1kw" against the row spec "1KW": the remark written holds no spec
\* mismatch text
C14_Witness ==
    /\ InRange
    /\ last_action.quoted_spec = Str(<<"1", "k", "w">>)
    /\ TargetText("spec") = Str(<<"1", "K", "W">>)
    /\ \E j \in NewSlots : IsStr(RemarkAfter(j)) /\ ~HasText(RemarkAfter(j), MismatchSpecPrefix)

\* the number of places of s at which text occurs
Occurrences(text, s) ==
    Cardinality({i \in 0..(Len(s) - Len(text)) : SubSeq(s, i + 1, i + Len(text)) = text})
OccursOnce(text, v) == IsStr(v) /\ Occurrences(text, v.s) = 1

\* C15: the mismatch text occurs exactly once in the remark written with the new
\* offer, also when the action's own remark already held it; and process_update
\* applied once more to the same action and the same sheet as before the call gives
\* the sheet the first call gave, so again a remark with one occurrence.
C15_MismatchTextOnce ==
    /\ \A j \in NewSlots :
          /\ ModelDiffers => OccursOnce(ModelMismatchText, RemarkAfter(j))
          /\ SpecDiffers => OccursOnce(SpecMismatchText, RemarkAfter(j))
    /\ (InRange /\ (ModelDiffers \/ SpecDiffers)) =>
          process_update(pre_sheet, last_action) = sheet_data

\* the action's remark already held the model mismatch text: the remark written holds
\* it once, followed by the spec mismatch text
C15_Witness ==
    /\ InRange /\ ModelDiffers /\ SpecDiffers
    /\ HasText(last_action.remarks, ModelMismatchText)
    /\ \E j \in NewSlots :
          /\ OccursOnce(ModelMismatchText, RemarkAfter(j))
          /\ RemarkAfter(j) = Str(last_action.remarks.s \o <<"fw;">> \o SpecMismatchText)

Headers == sch_out.schema.headers
FullBlocks == (Len(Headers) - BASIC_COLS_COUNT) \div SLOT_SIZE

\* C3: for a header row of B = 5 base columns, K full blocks of 7 columns and fewer
\* than 7 columns left over, build_sheet_schema returns exactly K slots, and slot s
\* maps brand, remark, price, tax, shipping, lead time and supplier, in this order, to
\* the columns B + 7*(s-1) + 0, 1, ..., 6.
C3_TemplateOrder ==
    (sch_out.done /\ Len(Headers) >= BASIC_COLS_COUNT) =>
        /\ Len(sch_out.schema.slots) = FullBlocks
        /\ \A s \in 1..Len(sch_out.schema.slots) : \A j \in 1..Len(SLOT_TEMPLATE) :
              sch_out.schema.slots[s][SLOT_TEMPLATE[j]]
                  = BASIC_COLS_COUNT + SLOT_SIZE * (s - 1) + (j - 1)

\* a header of one full block and a partial one, its slot built with the price at
\* offset 1 and the remark at offset 5
C3_Witness ==
    /\ sch_out.done
    /\ Len(Headers) = BASIC_COLS_COUNT + SLOT_SIZE + 2
    /\ Len(sch_out.schema.slots) = 1
    /\ sch_out.schema.slots[1]["danjia"] = BASIC_COLS_COUNT + 1
    /\ sch_out.schema.slots[1]["beizhu"] = BASIC_COLS_COUNT + 5

\* the 0-based indices of the columns of the header that read as text
ColumnsHeaded(text) == {c \in 0..(Len(Headers) - 1) : Headers[c + 1] = Str(text)}
Supplier1 == <<"gong", "ying", "shang", "1">>
Unit == <<"dan", "wei">>
\* the header has a unit column among the base columns and a supplier-1 column
\* after them
UnitThenSupplier1 ==
    /\ sch_out.done
    /\ \E u \in ColumnsHeaded(Unit) : u < BASIC_COLS_COUNT
    /\ \E c \in ColumnsHeaded(Supplier1) : c >= BASIC_COLS_COUNT

\* C18: for a header with a unit column among the base columns and a column headed
\* supplier-1 after them, build_sheet_schema yields a slot 1 whose supplier field is
\* the index of the supplier-1 column, also when the header holds fewer than seven
\* slot columns.
C18_SupplierIsSupplierColumn ==
    UnitThenSupplier1 =>
        /\ Len(sch_out.schema.slots) >= 1
        /\ sch_out.schema.slots[1]["gongyingshang"] \in ColumnsHeaded(Supplier1)

\* the header of the regression test (eight columns, the supplier-1 column at index
\* 6) gave a schema without any slot
C18_Witness ==
    /\ UnitThenSupplier1
    /\ Len(Headers) = 8
    /\ ColumnsHeaded(Supplier1) = {6}
    /\ Len(sch_out.schema.slots) = 0

(***************************************************************************)
(* Properties of run_two_stage_agent (SpecAgent).  ag.prompts[n] is what    *)
(* the n-th call of the oracle was given, ag.responses[n] what it answered. *)
(***************************************************************************)
OracleCalls == 1..Len(ag.responses)
PlannerCalls == {n \in OracleCalls : ag.prompts[n].phase = "planner"}
WriterCalls == {n \in OracleCalls : ag.prompts[n].phase = "writer"}

\* a CALL_TOOL object whose tool is a string that is not blank
ValidCallTool(resp) ==
    /\ resp.form = "dict" /\ resp.action = "CALL_TOOL"
    /\ IsStr(resp.tool) /\ Strip(resp.tool.s) # <<>>

\* C5: run_two_stage_agent executes at most max_tool_steps tools for one message.
C5_ToolStepsBounded == Len(ag.tool_results) <= ag.max_tool_steps

\* a run that executed one tool more than max_tool_steps
C5_Witness ==
    /\ ag.pc = "done" /\ ag.max_tool_steps = MaxToolSteps
    /\ Len(ag.tool_results) = MaxToolSteps + 1

\* C6: when the planner answers a valid CALL_TOOL on every round, the run does not
\* raise and asks the planner a bounded number of times; the writer is reached only
\* with the step bound used up, is called exactly once, with the draft of the run
\* (empty) and every tool result, and the run returns the writer's ASK or WRITE.
C6_FallsThroughToWriter ==
    (\A n \in PlannerCalls : ValidCallTool(ag.responses[n])) =>
        /\ ag.result.kind # "raise"
        /\ Cardinality(PlannerCalls) <= ag.max_tool_steps + 1
        /\ Len(ag.tool_results) = Cardinality(PlannerCalls)
        /\ ag.pc = "writer" => Len(ag.tool_results) >= ag.max_tool_steps
        /\ ag.pc = "done" =>
              /\ WriterCalls = {Len(ag.responses)}
              /\ ag.prompts[Len(ag.prompts)].tool_results = ag.tool_results
              /\ ag.prompts[Len(ag.prompts)].draft = EmptyDraft
              /\ Len(ag.tool_results) >= ag.max_tool_steps
              /\ ag.result.kind = "return"
              /\ ag.result.action \in {"ASK", "WRITE"}
              /\ LET w == ag.responses[Len(ag.responses)]
                 IN  /\ (w.form = "dict" /\ w.action = "WRITE") =>
                            /\ ag.result.action = "WRITE"
                            /\ ag.result.tool_results = ag.tool_results
                     /\ (w.form = "dict" /\ w.action = "ASK") => ag.result.action = "ASK"

\* the planner asked for a tool on every round and the writer's WRITE was returned
C6_Witness ==
    /\ ag.pc = "done" /\ ag.max_tool_steps >= 1
    /\ \A n \in PlannerCalls : ValidCallTool(ag.responses[n])
    /\ Cardinality(PlannerCalls) >= ag.max_tool_steps
    /\ Cardinality(WriterCalls) = 1
    /\ ag.result.action = "WRITE"

\* the actions a phase recognises
Recognised(phase) == IF phase = "planner" THEN {"ASK", "CALL_TOOL", "DONE"} ELSE {"ASK", "WRITE"}

\* a response that is no JSON object, or whose action the phase does not recognise
Unusable(phase, resp) == resp.form # "dict" \/ resp.action \notin Recognised(phase)

\* C7: a planner or writer response that is no JSON object, or whose action is not
\* recognised in its phase, ends the run with an ASK result: no raise, no WRITE.
C7_UnusableGivesAsk ==
    \A n \in OracleCalls :
        Unusable(ag.prompts[n].phase, ag.responses[n]) =>
            /\ n = Len(ag.responses)
            /\ ag.pc = "done"
            /\ ag.result.kind = "return"
            /\ ag.result.action = "ASK"

\* the writer answered a JSON array after a tool round, and the run returned ASK
C7_Witness ==
    /\ ag.pc = "done" /\ Len(ag.responses) >= 2
    /\ ag.prompts[Len(ag.prompts)].phase = "writer"
    /\ ag.responses[Len(ag.responses)].form = "list"
    /\ ag.result.action = "ASK"

\* the planner rounds whose CALL_TOOL names a tool that fails: one that is not in the
\* registry, or a registered one whose function raises
FailingToolCalls ==
    {n \in PlannerCalls :
        /\ ValidCallTool(ag.responses[n])
        /\ Strip(ag.responses[n].tool.s) \notin {ToolReturns}}

\* the result of the n-th round is an {ok: false, error} dict, and it is in what the
\* next call of the oracle is given
FailureFedBack(n) ==
    /\ Len(ag.tool_results) >= n
    /\ ag.tool_results[n].ok = FALSE
    /\ ag.tool_results[n].body \in {"error: unknown tool", "error: raised"}
    /\ n < Len(ag.prompts) => ag.prompts[n + 1].tool_results[n] = ag.tool_results[n]

\* C8 as stated: a CALL_TOOL naming a tool that is absent from the registry, or whose
\* function raises, yields an {ok: false, error} result that is appended to the tool
\* results, and the planner is called again.
C8_PlannerCalledAgain ==
    \A n \in FailingToolCalls :
        /\ FailureFedBack(n)
        /\ IF n = Len(ag.responses) THEN ag.pc = "planner"
           ELSE ag.prompts[n + 1].phase = "planner"

\* C8 amended: the failure does not end the run; its {ok: false, error} result is
\* appended and given to the next oracle call, which is the planner again while
\* rounds are left and the writer after the last round.
C8_RunContinues ==
    \A n \in FailingToolCalls :
        /\ FailureFedBack(n)
        /\ ag.result.kind # "raise"
        /\ LET next_phase == IF n = Len(ag.responses) THEN ag.pc ELSE ag.prompts[n + 1].phase
           IN  next_phase = IF n < ag.max_tool_steps + 1 THEN "planner" ELSE "writer"

\* an unknown tool and then a raising tool, each followed by another planner call
C8_Witness ==
    /\ Len(ag.responses) >= 3
    /\ {1, 2} \subseteq FailingToolCalls
    /\ ag.tool_results[1].body = "error: unknown tool"
    /\ ag.tool_results[2].body = "error: raised"
    /\ ag.prompts[3].phase = "planner"

(***************************************************************************)
(* Properties of chat_endpoint (SpecChat).                                 *)
(***************************************************************************)
BatchAnswered ==
    /\ chat.pc = "done"
    /\ chat.agent_out.action = "WRITE"
    /\ chat.agent_out.has_updates
    /\ chat.agent_out.updates # <<>>

\* an item that is a dict and passes the required-field validation
Usable(item) ==
    /\ item.isdict
    /\ missing_of(with_explicit_row(item, extract_row_from_message(chat.message)),
                  chat.required_fields) = <<>>

UsableItems == SelectSeq(chat.agent_out.updates, Usable)

RECURSIVE ApplyAll(_, _)
\* the sheet after process_update was applied for every item of a list, in order
ApplyAll(sheet, items) ==
    IF items = <<>> THEN sheet
    ELSE ApplyAll(process_update(sheet,
                      UpdateAction(with_explicit_row(Head(items),
                                       extract_row_from_message(chat.message))).action),
                  Tail(items))

\* C9: for a WRITE with several updates every item is validated on its own: an item
\* that fails the required-field validation is skipped, the other items are applied
\* to the sheet in order, and the response is ASK only when no item is usable.
C9_InvalidItemsSkipped ==
    BatchAnswered =>
        IF UsableItems = <<>>
        THEN chat.response.kind = "return" /\ chat.response.action = "ASK"
        ELSE /\ chat.response.kind = "return"
             /\ chat.response.action = "WRITE"
             /\ chat.response.updated_sheet = ApplyAll(pre_sheet, UsableItems)

\* a list whose first item lacks the price and whose second item is complete was
\* answered with ASK
C9_Witness ==
    /\ BatchAnswered
    /\ Len(chat.agent_out.updates) = 2
    /\ ~Usable(chat.agent_out.updates[1]) /\ chat.agent_out.updates[1].isdict
    /\ Usable(chat.agent_out.updates[2])
    /\ chat.response.action = "ASK"

\* C19: when the schema of the request's sheet has no slot, chat_endpoint answers
\* ASK with its message about the missing price columns, and it has then neither
\* run the agent (no oracle call, no tool) nor changed a cell of the sheet.
C19_NoSlotsAsk ==
    (sch_out.done /\ Len(sch_out.schema.slots) = 0) =>
        /\ chat.pc = "done"
        /\ chat.response = ChatAsk("no price column")
        /\ chat.agent_out = ChatStart(chat.message).agent_out
        /\ sheet_data = pre_sheet

\* a sheet with a header and rows but no slot column was answered with the ASK
C19_Witness ==
    /\ sch_out.done
    /\ Len(sheet_data) = 3
    /\ Len(sch_out.schema.slots) = 0
    /\ chat.pc = "done"
    /\ chat.response.kind = "return" /\ chat.response.action = "ASK"

\* a response the phase reads as the given action
Answers(n, action) == ag.responses[n].form = "dict" /\ ag.responses[n].action = action

\* C24: in every run a planner ASK is the last call of the oracle and no writer call
\* is made; the writer is called at most once, as the last call, after at least one
\* planner call, and the call before it was a planner DONE or the tool round that used
\* up the step bound; a WRITE result comes with a writer call that answered WRITE.
C24_TwoPhaseProtocol ==
    /\ \A n \in PlannerCalls :
          Answers(n, "ASK") =>
              /\ n = Len(ag.responses) /\ ag.pc = "done"
              /\ WriterCalls = {}
              /\ ag.result.action = "ASK"
    /\ Cardinality(WriterCalls) <= 1
    /\ \A w \in WriterCalls :
          /\ w = Len(ag.responses) /\ w > 1 /\ ag.pc = "done"
          /\ PlannerCalls = 1..(w - 1)
          /\ \/ Answers(w - 1, "DONE")
             \/ /\ ValidCallTool(ag.responses[w - 1])
                /\ Len(ag.prompts[w].tool_results) >= ag.max_tool_steps
    /\ ag.pc = "writer" => WriterCalls = {} /\ PlannerCalls # {}
    /\ ag.result.action = "WRITE" =>
          /\ WriterCalls = {Len(ag.responses)}
          /\ Answers(Len(ag.responses), "WRITE")

\* a run of a tool round, a planner DONE and a writer WRITE, with steps to spare
C24_Witness ==
    /\ ag.pc = "done" /\ ag.max_tool_steps = MaxToolSteps
    /\ Len(ag.responses) = 3
    /\ ValidCallTool(ag.responses[1]) /\ Answers(2, "DONE") /\ Answers(3, "WRITE")
    /\ WriterCalls = {3}
    /\ ag.result.action = "WRITE"

\* C25: the k-th planner call is given exactly the results of the k-1 tools executed
\* before it, in execution order; the tool results are those of the planner's tool
\* rounds, one for each round in the order of the rounds, and none is dropped; the
\* writer is given all of them and a WRITE result carries all of them.
C25_ToolResultsAccumulate ==
    /\ \A k \in PlannerCalls :
          /\ Len(ag.prompts[k].tool_results) = k - 1
          /\ ag.prompts[k].tool_results = SubSeq(ag.tool_results, 1, k - 1)
    /\ \A j \in 1..Len(ag.tool_results) :
          /\ j \in PlannerCalls /\ ValidCallTool(ag.responses[j])
          /\ ag.tool_results[j].tool = Strip(ag.responses[j].tool.s)
    /\ Len(ag.tool_results) = Cardinality({n \in PlannerCalls : ValidCallTool(ag.responses[n])})
    /\ \A w \in WriterCalls : ag.prompts[w].tool_results = ag.tool_results
    /\ ag.result.action = "WRITE" => ag.result.tool_results = ag.tool_results

\* two tools ran, a failing one and then one that returned; the third planner call was
\* given both results, and so were the writer and the WRITE result
C25_Witness ==
    /\ ag.pc = "done" /\ Len(ag.responses) = 4
    /\ Len(ag.tool_results) = 2
    /\ ag.tool_results[1].ok = FALSE /\ ag.tool_results[2].ok = TRUE
    /\ ag.prompts[3].phase = "planner" /\ ag.prompts[3].tool_results = ag.tool_results
    /\ ag.prompts[4].phase = "writer" /\ ag.prompts[4].tool_results = ag.tool_results
    /\ ag.result.action = "WRITE" /\ ag.result.tool_results = ag.tool_results

\* C26: whatever WRITE the agent returned, with an updates list or with data,
\* chat_endpoint ends with a ChatResponse whose action is ASK or WRITE; it raises
\* nothing.
C26_WriteAlwaysAnswered ==
    (chat.pc = "done" /\ chat.agent_out.action = "WRITE") =>
        /\ chat.response.kind = "return"
        /\ chat.response.action \in {"ASK", "WRITE"}

\* an updates list of one item whose price is a text that is no number: the
\* ValidationError of UpdateAction left the handler
C26_Witness ==
    /\ BatchAnswered
    /\ Len(chat.agent_out.updates) = 1
    /\ chat.agent_out.updates[1].price = Str(<<"mian", "yi">>)
    /\ Usable(chat.agent_out.updates[1])
    /\ chat.response.kind = "raise"
    /\ chat.response.content = "ValidationError"

(***************************************************************************)
(* Properties of locate_rows_by_criteria (SpecLocate).                     *)
(***************************************************************************)
LocDone == loc.pc = "done" /\ loc.fn = "locate_rows_by_criteria"
\* a criterion as the function compares it: normalised, empty when it is no string
Criterion(v) == IF IsStr(v) THEN normalize_header(v) ELSE <<>>
LocName == Criterion(loc.query.item_name)
LocBrand == Criterion(loc.query.brand)
LocModel == Criterion(loc.query.model)
LocSpec == Criterion(loc.query.spec)
\* the cell of row i under the item column the header gives for a field, normalised
LocCell(i, field) ==
    LET idx == infer_item_columns(loc.sheet[1])[field]
    IN  IF idx = NoIdx \/ idx >= Len(loc.sheet[i]) THEN <<>>
        ELSE normalize_header(Str(cell_text(loc.sheet[i][idx + 1])))

\* the criteria are weak: no model and no spec, and either a name of at most two
\* characters without a brand, or a brand without a name
WeakCriteria ==
    /\ LocModel = <<>> /\ LocSpec = <<>>
    /\ \/ LocName # <<>> /\ Len(LocName) <= 2 /\ LocBrand = <<>>
       \/ LocBrand # <<>> /\ LocName = <<>>

\* the rows that scored positively
PositiveRows ==
    IF Len(loc.sheet) < 2 THEN {}
    ELSE {i \in 2..Len(loc.sheet) :
             row_score(loc.sheet[i], infer_item_columns(loc.sheet[1]),
                       [name |-> LocName, brand |-> LocBrand, model |-> LocModel,
                        spec |-> LocSpec]) > 0}

CandidateRows == {loc.out.candidates[n].row : n \in 1..Len(loc.out.candidates)}

\* C11 as stated: ambiguous is true exactly when the criteria are weak and more than
\* one row scored positively.
C11_AmbiguousIffWeakAndSeveralRows ==
    LocDone => (loc.out.ambiguous <=> (WeakCriteria /\ Cardinality(PositiveRows) > 1))

\* C11 amended: ambiguous is true exactly when the criteria are weak and more than one
\* candidate is returned, that is when more than one row scored positively and
\* max_candidates is above 1; a query with a model or a spec is never ambiguous.
C11_AmbiguousIffWeakAndSeveralCandidates ==
    LocDone =>
        /\ loc.out.ambiguous <=> (WeakCriteria /\ Len(loc.out.candidates) > 1)
        /\ Len(loc.out.candidates) =
              (IF Cardinality(PositiveRows) < loc.max_candidates
               THEN Cardinality(PositiveRows) ELSE loc.max_candidates)
        /\ CandidateRows \subseteq PositiveRows
        /\ (LocModel # <<>> \/ LocSpec # <<>>) => ~loc.out.ambiguous

\* a query with only the brand, matching two rows of that brand, returned both rows
\* with ambiguous = true
C11_Witness ==
    /\ LocDone
    /\ LocBrand = <<"xi", "men", "zi">> /\ LocName = <<>> /\ LocModel = <<>> /\ LocSpec = <<>>
    /\ Len(loc.sheet) = 3
    /\ CandidateRows = {2, 3}
    /\ \A n \in 1..2 : loc.out.candidates[n].brand = Str(<<"xi", "men", "zi">>)
    /\ loc.out.ambiguous

\* the row's model does not match the model criterion: both are given, they differ,
\* and neither is a substring of the other
ModelMismatch(i) ==
    LET mh == LocCell(i, "model")
    IN  /\ LocModel # <<>> /\ mh # <<>>
        /\ LocModel # mh /\ ~IsSubstr(LocModel, mh) /\ ~IsSubstr(mh, LocModel)

\* C12: a row whose model does not match a supplied model criterion at all is not
\* returned as a candidate, whatever its name, brand or spec matches.
C12_ModelMismatchDisqualifies ==
    LocDone => \A i \in 2..Len(loc.sheet) : ModelMismatch(i) => i \notin CandidateRows

\* model F1 and spec 1KW asked for; the row of model M1 and spec 1KW was returned
C12_Witness ==
    /\ LocDone
    /\ LocModel = <<"F", "1">> /\ LocSpec = <<"1", "K", "W">>
    /\ \E n \in 1..Len(loc.out.candidates) :
          /\ ModelMismatch(loc.out.candidates[n].row)
          /\ loc.out.candidates[n].model = Str(<<"M", "1">>)
          /\ loc.out.candidates[n].score = 900

\* the row's spec does not match the spec criterion: both are given, they differ, and
\* neither is a substring of the other
SpecMismatch(i) ==
    LET sh == LocCell(i, "spec")
    IN  /\ LocSpec # <<>> /\ sh # <<>>
        /\ LocSpec # sh /\ ~IsSubstr(LocSpec, sh) /\ ~IsSubstr(sh, LocSpec)
\* a model criterion was supplied and matched the row: equal, or one holds the other
ModelMatched(i) ==
    LET mh == LocCell(i, "model")
    IN  /\ LocModel # <<>> /\ mh # <<>>
        /\ (LocModel = mh \/ IsSubstr(LocModel, mh) \/ IsSubstr(mh, LocModel))
\* the score the row earned from its name, brand and model
ScoreOfOtherFields(i) ==
    row_score(loc.sheet[i], infer_item_columns(loc.sheet[1]),
              [name |-> LocName, brand |-> LocBrand, model |-> LocModel, spec |-> <<>>])

\* C23: a row whose spec does not match the spec criterion is left out for that
\* reason only when a model criterion was supplied and matched the row; when no model
\* was supplied, or the supplied model did not match the row, the row keeps the score
\* it earned from its other fields and, that score being positive, is a candidate
\* with that score (max_candidates allowing).
C23_SpecMismatchZeroesOnlyWithMatchedModel ==
    LocDone =>
        \A i \in 2..Len(loc.sheet) :
            SpecMismatch(i) =>
                IF ModelMatched(i) THEN i \notin CandidateRows
                ELSE (ScoreOfOtherFields(i) > 0 /\ loc.max_candidates >= Len(loc.sheet)) =>
                        \E n \in 1..Len(loc.out.candidates) :
                            /\ loc.out.candidates[n].row = i
                            /\ loc.out.candidates[n].score = ScoreOfOtherFields(i)

\* name, model M1 and spec 1KW asked for; the row of that name with no model and the
\* spec 2KW earned 1200 from its name and is no candidate
C23_Witness ==
    /\ LocDone /\ loc.max_candidates = 5
    /\ LocName = <<"dian", "ji">> /\ LocModel = <<"M", "1">> /\ LocSpec = <<"1", "K", "W">>
    /\ \E i \in 2..Len(loc.sheet) :
          /\ LocCell(i, "model") = <<>> /\ LocCell(i, "spec") = <<"2", "K", "W">>
          /\ SpecMismatch(i) /\ ~ModelMatched(i)
          /\ ScoreOfOtherFields(i) = 1200
          /\ i \notin CandidateRows

(***************************************************************************)
(* Properties of fuzzy_match_rows (SpecLocate).                            *)
(***************************************************************************)
FzDone == loc.pc = "done" /\ loc.fn = "fuzzy_match_rows"
FzQuery == IF IsStr(loc.query.query) THEN loc.query.query.s ELSE <<>>
\* the text of row i under the item column of a field
FzText(i, field) ==
    LET idx == infer_item_columns(loc.sheet[1])[field]
    IN  IF idx = NoIdx \/ idx >= Len(loc.sheet[i]) THEN <<>> ELSE cell_text(loc.sheet[i][idx + 1])
Largest(S) == CHOOSE x \in S : \A y \in S : y <= x
\* the score of row i: the largest similarity of the query to its model, name, spec
FzScore(i) == Largest({fuzzy_match_score(FzQuery, FzText(i, f)) : f \in {"model", "name", "spec"}})
FzThreshold == loc.query.threshold * RatioScale
DataRows == IF Len(loc.sheet) < 2 THEN {} ELSE 2..Len(loc.sheet)
AtThreshold == {i \in DataRows : FzScore(i) >= FzThreshold}
PassBrandFilter ==
    {i \in DataRows :
        IsStr(loc.query.brand_filter) =>
            fuzzy_match_score(loc.query.brand_filter.s, FzText(i, "brand")) >= 70 * RatioScale}
ReturnedRows == {loc.out[n].row : n \in 1..Len(loc.out)}
\* what is returned is the best of the rows of S, at most max_results of them, each
\* with its score, in descending order of score
ReturnsBestOf(S) ==
    /\ ReturnedRows \subseteq S
    /\ Len(loc.out) = (IF Cardinality(S) < loc.query.max_results
                       THEN Cardinality(S) ELSE loc.query.max_results)
    /\ \A n \in 1..Len(loc.out) : loc.out[n].score = FzScore(loc.out[n].row)
    /\ \A n \in 1..(Len(loc.out) - 1) : loc.out[n].score >= loc.out[n + 1].score
    /\ \A i \in S \ ReturnedRows : \A n \in 1..Len(loc.out) : FzScore(i) <= loc.out[n].score

\* C20 as stated: fuzzy_match_rows returns exactly the rows whose score is at least
\* threshold (the best max_results of them when there are more), in descending order
\* of score.
C20_ExactlyRowsAtThreshold == FzDone => ReturnsBestOf(AtThreshold)

\* C20 amended: fuzzy_match_rows returns the rows that pass the brand filter (no
\* filter, or a brand at least 70 similar to it) and whose score is at least
\* threshold, the best max_results of them when there are more, in descending order
\* of score and rows of one score in row order; a row scoring exactly threshold is
\* among them and a row scoring less is not.
C20_RowsAtThresholdPassingBrand ==
    FzDone =>
        /\ ReturnsBestOf(AtThreshold \cap PassBrandFilter)
        /\ \A n \in 1..(Len(loc.out) - 1) :
              loc.out[n].score = loc.out[n + 1].score => loc.out[n].row < loc.out[n + 1].row

\* a row scoring exactly the threshold of 80 (query M1, model M12) was returned
C20_Witness ==
    /\ FzDone
    /\ loc.query.threshold = 80
    /\ \E n \in 1..Len(loc.out) :
          /\ loc.out[n].score = FzThreshold
          /\ loc.out[n].match_field = "xinghao"
          /\ loc.out[n].model = Str(<<"M", "1", "2">>)

\* The place process_update owes an existing priced offer: its rank among the existing
\* offers by price, then by slot number, moved one further when its price is above the
\* new price; and the place it owes the new offer: after every existing offer whose
\* price is not above the new price.
RankBefore(n) ==
    1 + Cardinality({m \in PricedBefore :
                        PriceBefore(m) < PriceBefore(n) \/ (PriceBefore(m) = PriceBefore(n) /\ m < n)})
PlaceOf(n) == RankBefore(n) + (IF PriceBefore(n) > last_action.price THEN 1 ELSE 0)
NewPlace == 1 + Cardinality({m \in PricedBefore : PriceBefore(m) <= last_action.price})
IsNewOffer(vals) ==
    vals["danjia"] = Num(last_action.price) /\ vals["gongyingshang"] = last_action.supplier

\* C22: the new offer is in the slot just after the existing offers priced at or below
\* its price (so before the first one priced strictly higher, at the end when there is
\* none), and every existing offer is in the slot its rank by price and then by
\* original slot number gives it, one further when it is priced above the new offer;
\* offers whose place is beyond the last slot are dropped.  So an existing offer of the
\* new price is in a lower slot than the new offer, and existing offers of equal price
\* keep their slot order.
C22_InsertedBeforeFirstHigher ==
    (InRange /\ NSlots >= 1) =>
        /\ NewPlace <= NSlots => IsNewOffer(SlotAfter(NewPlace))
        /\ \A n \in PricedBefore : PlaceOf(n) <= NSlots => SlotAfter(PlaceOf(n)) = SlotBefore(n)
        /\ \A n \in PricedBefore :
              (PriceBefore(n) = last_action.price /\ NewPlace <= NSlots) => PlaceOf(n) < NewPlace
        /\ \A m, n \in PricedBefore :
              (m < n /\ PriceBefore(m) = PriceBefore(n)) => PlaceOf(m) < PlaceOf(n)

\* an existing offer of the new price kept slot 1 and the new offer took slot 2, before
\* a dearer one
C22_Witness ==
    /\ InRange /\ NSlots = 3
    /\ PricedBefore = {1, 2}
    /\ PriceBefore(1) = last_action.price /\ PriceBefore(2) > last_action.price
    /\ SlotAfter(1) = SlotBefore(1)
    /\ IsNewOffer(SlotAfter(2)) /\ SlotAfter(2) # SlotBefore(1)
    /\ SlotAfter(3) = SlotBefore(2)

\* the positions (from 1) of the cells of a row that belong to a slot
SlotCols ==
    UNION {{UpdSchema.slots[s][f] + 1 : f \in DOMAIN UpdSchema.slots[s]} : s \in 1..NSlots}

\* C27: whatever the update action, the call leaves the number of rows, the header
\* row, every row other than the target row, and the cells of the target row outside
\* the slot columns as they were.
C27_OnlySlotCellsOfDataRow ==
    Acted =>
        /\ Len(sheet_data) = Len(pre_sheet)
        /\ Len(sheet_data) >= 1 => sheet_data[1] = pre_sheet[1]
        /\ \A r \in 1..Len(pre_sheet) : r # last_action.target_row => sheet_data[r] = pre_sheet[r]
        /\ InRange =>
              \A c \in 1..Len(pre_sheet[last_action.target_row]) :
                  c \notin SlotCols =>
                      sheet_data[last_action.target_row][c] = pre_sheet[last_action.target_row][c]

\* an action on row 1: the header row lost its slot headings and holds the offer, its
\* price where the heading of the price column was
C27_Witness ==
    /\ InRange /\ last_action.target_row = 1 /\ NSlots >= 1
    /\ IsStr(pre_sheet[1][UpdSchema.slots[1]["danjia"] + 1])
    /\ sheet_data[1][UpdSchema.slots[1]["danjia"] + 1] = Num(last_action.price)
    /\ sheet_data[1] # pre_sheet[1]
    /\ \A r \in 2..Len(pre_sheet) : sheet_data[r] = pre_sheet[r]

\* the lowest of the prices the row held before the call and the new price
MinPriceSeen ==
    CHOOSE p \in ({last_action.price} \cup {PriceBefore(n) : n \in PricedBefore}) :
        /\ p <= last_action.price
        /\ \A n \in PricedBefore : p <= PriceBefore(n)

\* C28: after every call of process_update on a row, first or later, slot 1 holds a
\* priced offer whose price is the minimum of the prices the row held before the call
\* and the price of the update; so it is the minimum over the row's first offers and
\* every update applied so far, the cheapest offer seen is not evicted and the price
\* of slot 1 never goes up.
C28_Slot1IsMinimum ==
    (InRange /\ NSlots >= 1) =>
        /\ Priced(SlotAfter(1))
        /\ PriceAfter(1) = MinPriceSeen
        /\ 1 \in PricedBefore => PriceAfter(1) <= PriceBefore(1)
        /\ (PricedBefore # {} /\ MinPriceSeen < last_action.price) =>
              \E n \in PricedBefore : PriceBefore(n) = MinPriceSeen /\ SlotAfter(1) = SlotBefore(n)

\* a second update on a full row, dearer than the offer of slot 1: that offer stayed
\* in slot 1
C28_Witness ==
    /\ n_updates = 2 /\ RowWasFull /\ NSlots >= 2
    /\ last_action.target_row = 2
    /\ PriceBefore(1) < last_action.price
    /\ PriceAfter(1) = PriceBefore(1)
    /\ SlotAfter(1) = SlotBefore(1)

\* the prices of slots 1..N of the target row in a sheet (Inf for a slot without one)
SlotPrices(sheet) ==
    [n \in 1..NSlots |-> get_price(get_slot_values(sheet[last_action.target_row], UpdSchema, n))]
\* the update actions B that may follow the action A = last_action on the same row
SecondActions ==
    {MakeAction(last_action.target_row, p, PlainVariant) : p \in 1..MaxPrice}
\* how many of the prices of the row before A, of A and of B are at most p
SeenUpTo(p, b) ==
    Cardinality({n \in PricedBefore : PriceBefore(n) <= p})
        + (IF last_action.price <= p THEN 1 ELSE 0) + (IF b.price <= p THEN 1 ELSE 0)

\* C29: A having been applied to a row, for every action B on that row applying B next
\* gives the same prices in slots 1..N as applying B first and A after it: the N lowest
\* of the prices of the row's offers, of A and of B, in ascending order.
C29_OrderOfUpdatesIrrelevant ==
    (n_updates = 1 /\ InRange /\ NSlots >= 1) =>
        \A b \in SecondActions :
            LET a_then_b == SlotPrices(process_update(sheet_data, b))
                b_then_a == SlotPrices(process_update(process_update(pre_sheet, b), last_action))
            IN  /\ a_then_b = b_then_a
                /\ \A n \in 1..(NSlots - 1) : a_then_b[n] <= a_then_b[n + 1]
                /\ \A p \in 0..MaxPrice :
                      Cardinality({n \in 1..NSlots : a_then_b[n] <= p})
                          = (IF SeenUpTo(p, b) < NSlots THEN SeenUpTo(p, b) ELSE NSlots)

\* a full row of two slots priced 2 and 4 was given A = 3 and holds 2 and 3; given
\* B = 1 next it holds 1 and 2, as it does given B first (1 and 2) and A after it,
\* which is then dropped
C29_Witness ==
    /\ n_updates = 1 /\ RowWasFull /\ NSlots = 2
    /\ PriceBefore(1) = 2 /\ PriceBefore(2) = 4 /\ last_action.price = 3
    /\ PriceAfter(1) = 2 /\ PriceAfter(2) = 3
    /\ \E b \in SecondActions :
          /\ b.price = 1
          /\ SlotPrices(process_update(sheet_data, b)) = <<1, 2>>
          /\ SlotPrices(process_update(pre_sheet, b)) = <<1, 2>>
          /\ SlotPrices(process_update(process_update(pre_sheet, b), last_action)) = <<1, 2>>

\* the slots of the target row hold all they held before the call, cell for cell
SlotsUnchanged == \A n \in 1..NSlots : SlotAfter(n) = SlotBefore(n)
\* the prices of the row did not decrease from slot to slot before the call
AscendingBefore == \A n \in 1..(NSlots - 1) : PriceBefore(n) <= PriceBefore(n + 1)

\* C30 as stated: when every slot of the target row is priced and the new price is at
\* least every existing price, every slot cell of the row is as it was.
C30_FullRowUnchanged ==
    (RowWasFull /\ last_action.price >= MaxPriceBefore) => SlotsUnchanged

\* C30 amended: when every slot of the target row is priced, the prices do not
\* decrease from slot 1 to slot N, and the new price is at least every existing price,
\* every slot cell of the row is as it was (the new offer is the one dropped); when the
\* prices were not in that order the existing offers are all kept, each with its seven
\* values, but moved into ascending order.
C30_FullSortedRowUnchanged ==
    (RowWasFull /\ last_action.price >= MaxPriceBefore) =>
        /\ AscendingBefore => SlotsUnchanged
        /\ \A n \in 1..NSlots : SlotAfter(RankBefore(n)) = SlotBefore(n)
        /\ ~AscendingBefore => ~SlotsUnchanged

\* a full row priced 1, 2, 2 given an offer priced 2 is as it was
C30_Witness ==
    /\ RowWasFull /\ NSlots = 3
    /\ PriceBefore(1) = 1 /\ PriceBefore(2) = 2 /\ PriceBefore(3) = 2
    /\ last_action.price = 2
    /\ SlotsUnchanged
    /\ sheet_data[last_action.target_row] = pre_sheet[last_action.target_row]

(***************************************************************************)
(* Properties of the validators of UpdateAction (SpecAction).              *)
(***************************************************************************)
Validated == chat.pc = "validated"
\* the tokens the claim names
NamedYes == { <<"y", "e", "s">>, <<"t", "r", "u", "e">>, <<"shi">>, <<"han", "shui">>, <<"han", "yun">> }
NamedNo == { <<"n", "o">>, <<"f", "a", "l", "s", "e">>, <<"fou">>, <<"bu", "han", "shui">>,
             <<"bu", "han", "yun">> }
\* the tokens both fields take, and those only one of them takes
CommonYes == { <<"t", "r", "u", "e">>, <<"t">>, <<"y", "e", "s">>, <<"y">>, <<"1">>, <<"shi">>,
               <<"han", "yun">>, <<"han", "yun", "fei">>, <<"han", "shui", "yun">>,
               <<"han", "shui", "/", "han", "yun">> }
CommonNo == { <<"f", "a", "l", "s", "e">>, <<"f">>, <<"n", "o">>, <<"n">>, <<"0">>, <<"fou">>,
              <<"bu", "han", "yun">> }
TaxOnlyYes == { <<"han", "shui">>, <<"han", "shui", "han", "yun">> }
TaxOnlyNo == { <<"bu", "han", "shui">>, <<"bu", "han", "shui", "bu", "han", "yun">>,
               <<"bu", "han", "shui", "/", "bu", "han", "yun">> }
ShippingOnlyYes == { <<"bao", "you">> }
ShippingOnlyNo == { <<"bu", "han", "yun", "fei">> }
\* the text of a value with its blanks stripped and in lower case; no text is <<"?">>
TokenOf(v) == IF IsStr(v) THEN Lower(Strip(v.s)) ELSE <<"?">>

====
